---- MODULE Spec2Model ----
(***************************************************************************)
(* The AST diff engine of emenda (drivers/golang/astdiff/diff.go):         *)
(* DiffExports and its six passes over the shared diffState, together with *)
(* the similarity helpers used by the fuzzy pass.                          *)
(*                                                                         *)
(* Strings that the code indexes, measures or orders (symbol names) are    *)
(* sequences of one-character strings; strings that the code only compares *)
(* for equality (packages, kinds, signatures, type strings) are TLA+       *)
(* strings.  A Go map is a function; ranging over a Go map visits its keys *)
(* in an arbitrary order, so every such loop is driven by an order that    *)
(* the action picks among all permutations of the key set.                 *)
(***************************************************************************)
EXTENDS Integers, Sequences, FiniteSets, TLC

\* Largest number of entries of the old and of the new symbol list.
MaxEntries == 2

\* The same, for the lists drawn from TypeUniverse.
MaxTypeEntries == 3

\* Largest length of a name of NameInputs.
MaxNameLen == 3

\* Largest number of parameters, and of results, of a function of OverlapInputs.
MaxTypes == 2

----------------------------------------------------------------------------
(* symbols.SymbolKind, changespec.ChangeKind, changespec.Confidence *)

SymbolFunc == "func"
SymbolType == "type"
SymbolMethod == "method"
SymbolField == "field"
SymbolConst == "const"
SymbolVar == "var"
SymbolInterface == "interface"

ChangeKindRenamed == "renamed"
ChangeKindSignatureChanged == "signature_changed"
ChangeKindRemoved == "removed"
ChangeKindTypeChanged == "type_changed"
ChangeKindPackageMoved == "package_moved"

ConfidenceHigh == "high"
ConfidenceMedium == "medium"
ConfidenceLow == "low"

(* The thresholds of diff.go, as exact rationals n/d. *)
MinNameSimilarity == [n |-> 7, d |-> 10]
MinParamOverlap == [n |-> 8, d |-> 10]
ShortNameLength == 4
ShortNameMinSimilarity == [n |-> 85, d |-> 100]

----------------------------------------------------------------------------
(* Generic helpers *)

Min2(a, b) == IF a <= b THEN a ELSE b
Max2(a, b) == IF a >= b THEN a ELSE b

RECURSIVE Perms(_)
\* All sequences that list every element of S exactly once.
Perms(S) ==
    IF S = {} THEN {<<>>}
    ELSE UNION {{<<x>> \o p : p \in Perms(S \ {x})} : x \in S}

RECURSIVE SumOver(_, _)
SumOver(S, f) ==
    IF S = {} THEN 0
    ELSE LET x == CHOOSE y \in S : TRUE IN f[x] + SumOver(S \ {x}, f)

\* Byte values of the characters that names (of symbols, files and
\* directories) are written with.
CharCode(c) ==
    CASE c = "." -> 46
      [] c = "A" -> 65
      [] c = "B" -> 66
      [] c = "C" -> 67
      [] c = "F" -> 70
      [] c = "G" -> 71
      [] c = "M" -> 77
      [] c = "S" -> 83
      [] c = "T" -> 84
      [] c = "_" -> 95
      [] c = "a" -> 97
      [] c = "b" -> 98
      [] c = "c" -> 99
      [] c = "d" -> 100
      [] c = "e" -> 101
      [] c = "f" -> 102
      [] c = "g" -> 103
      [] c = "i" -> 105
      [] c = "l" -> 108
      [] c = "m" -> 109
      [] c = "n" -> 110
      [] c = "o" -> 111
      [] c = "r" -> 114
      [] c = "s" -> 115
      [] c = "t" -> 116
      [] c = "v" -> 118
      [] c = "x" -> 120
      [] c = "y" -> 121

\* A Go map with no entry, and m[k] = v on a Go map.
EmptyMap == [x \in {} |-> x]
MapPut(m, k, v) == [x \in DOMAIN m \cup {k} |-> IF x = k THEN v ELSE m[x]]

RECURSIVE StrLess(_, _)
\* Go's a < b on strings: bytewise lexicographic order.
StrLess(a, b) ==
    IF b = <<>> THEN FALSE
    ELSE IF a = <<>> THEN TRUE
    ELSE IF CharCode(Head(a)) # CharCode(Head(b))
         THEN CharCode(Head(a)) < CharCode(Head(b))
    ELSE StrLess(Tail(a), Tail(b))

\* Exact rationals n/d with d > 0.
RatGE(x, y) == x.n * y.d >= y.n * x.d
RatGT(x, y) == x.n * y.d > y.n * x.d
RatEQ(x, y) == x.n * y.d = y.n * x.d
RatMul(x, y) == [n |-> x.n * y.n, d |-> x.d * y.d]

----------------------------------------------------------------------------
(* Symbols, keys and the inputs of DiffExports *)

\* symbolKey of a symbols.Symbol.
symbolKey(sym) == [pkg |-> sym.Package, kind |-> sym.Kind, name |-> sym.Name]

\* The zero symbolKey; used in the match log where a Change has no new side.
NoKey == [pkg |-> "", kind |-> "", name |-> <<>>]

\* Marks a symbol that has no FuncSigMap entry.
NoSig == [absent |-> TRUE]

Sym(pkg, kind, name, recv, sig) ==
    [Name |-> name, Kind |-> kind, Package |-> pkg, Receiver |-> recv, Signature |-> sig]

Item(sym, fs) == [sym |-> sym, fs |-> fs]

FS(params, results) == [params |-> params, results |-> results]

nFooa == <<"F", "o", "o", "a">>
nFoob == <<"F", "o", "o", "b">>
nA == <<"A">>
nB == <<"B">>
nAm == <<"A", ".", "m">>
nBm == <<"B", ".", "m">>
nC == <<"C">>
nCm == <<"C", ".", "m">>
nFooc == <<"F", "o", "o", "c">>
nFood == <<"F", "o", "o", "d">>
nFooe == <<"F", "o", "o", "e">>
nGooa == <<"G", "o", "o", "a">>
nGoob == <<"G", "o", "o", "b">>
nGet == <<"G", "e", "t">>
nSet == <<"S", "e", "t">>

\* The symbols the old and the new list are drawn from, each with its
\* FuncSigMap entry (or NoSig).  Items 1 and 2, items 7 and 8, and items 11
\* and 12, have the same symbolKey and different signatures.
Universe ==
    << Item(Sym("p", SymbolFunc, nFooa, <<>>, "(int) error"), FS(<<"int">>, <<"error">>)),
       Item(Sym("p", SymbolFunc, nFooa, <<>>, "(error) int"), FS(<<"error">>, <<"int">>)),
       Item(Sym("p", SymbolFunc, nFoob, <<>>, "(int) error"), FS(<<"int">>, <<"error">>)),
       Item(Sym("q", SymbolFunc, nFooa, <<>>, "(int, error)"), FS(<<"int", "error">>, <<>>)),
       Item(Sym("p", SymbolVar, nFooa, <<>>, "int"), NoSig),
       Item(Sym("p", SymbolConst, nFooa, <<>>, ""), NoSig),
       Item(Sym("p", SymbolType, nA, <<>>, "int"), NoSig),
       Item(Sym("p", SymbolType, nA, <<>>, "string"), NoSig),
       Item(Sym("p", SymbolType, nB, <<>>, "int"), NoSig),
       Item(Sym("p", SymbolMethod, nAm, nA, "()"), FS(<<>>, <<>>)),
       Item(Sym("p", SymbolMethod, nBm, nB, "()"), FS(<<>>, <<>>)),
       Item(Sym("p", SymbolMethod, nBm, nB, "(int)"), FS(<<"int">>, <<>>)) >>

\* Functions of one package for the fuzzy pass: three of one signature
\* (items 1 to 3), one whose types overlap theirs by 2/3 (item 4), two whose
\* types overlap by 4/5 (items 5 and 6), one without a FuncSigMap entry
\* (item 7), and two short names with the signature "()" (items 8 and 9).
FuzzyUniverse ==
    << Item(Sym("p", SymbolFunc, nFooa, <<>>, "(int) error"), FS(<<"int">>, <<"error">>)),
       Item(Sym("p", SymbolFunc, nFoob, <<>>, "(int) error"), FS(<<"int">>, <<"error">>)),
       Item(Sym("p", SymbolFunc, nFooc, <<>>, "(int) error"), FS(<<"int">>, <<"error">>)),
       Item(Sym("p", SymbolFunc, nFood, <<>>, "(int, bool) error"),
            FS(<<"int", "bool">>, <<"error">>)),
       Item(Sym("p", SymbolFunc, nGooa, <<>>, "(int, int, int) error"),
            FS(<<"int", "int", "int">>, <<"error">>)),
       Item(Sym("p", SymbolFunc, nGoob, <<>>, "(int, int, int, bool) error"),
            FS(<<"int", "int", "int", "bool">>, <<"error">>)),
       Item(Sym("p", SymbolFunc, nFooe, <<>>, "(string)"), NoSig),
       Item(Sym("p", SymbolFunc, nGet, <<>>, "()"), FS(<<>>, <<>>)),
       Item(Sym("p", SymbolFunc, nSet, <<>>, "()"), FS(<<>>, <<>>)) >>

\* Types of one name in two packages, the types they can be renamed to, and
\* methods of the types of package p.
TypeUniverse ==
    << Item(Sym("p", SymbolType, nA, <<>>, "int"), NoSig),
       Item(Sym("q", SymbolType, nA, <<>>, "string"), NoSig),
       Item(Sym("p", SymbolMethod, nAm, nA, "()"), FS(<<>>, <<>>)),
       Item(Sym("p", SymbolType, nB, <<>>, "int"), NoSig),
       Item(Sym("q", SymbolType, nC, <<>>, "string"), NoSig),
       Item(Sym("p", SymbolMethod, nBm, nB, "()"), FS(<<>>, <<>>)),
       Item(Sym("p", SymbolMethod, nBm, nB, "(int)"), FS(<<"int">>, <<>>)),
       Item(Sym("p", SymbolMethod, nCm, nC, "()"), FS(<<>>, <<>>)) >>

\* The characters of the names of NameInputs.
NameAlphabet == {"a", "b"}

RECURSIVE NamesOfLen(_)
\* The names of exactly n characters.
NamesOfLen(n) ==
    IF n = 0 THEN {<<>>}
    ELSE {<<c>> \o s : c \in NameAlphabet, s \in NamesOfLen(n - 1)}

\* The one-entry lists of a function with the signature "()" whose name has
\* at most MaxNameLen characters.
NameInputs ==
    {<<Item(Sym("p", SymbolFunc, name, <<>>, "()"), FS(<<>>, <<>>))>> :
        name \in UNION {NamesOfLen(n) : n \in 0 .. MaxNameLen}}

\* The type strings of the functions of OverlapInputs.
TypeNames == {"int", "error"}

RECURSIVE TypeListsOfLen(_)
\* The lists of exactly n type strings.
TypeListsOfLen(n) ==
    IF n = 0 THEN {<<>>}
    ELSE {<<ty>> \o s : ty \in TypeNames, s \in TypeListsOfLen(n - 1)}

TypeLists == UNION {TypeListsOfLen(n) : n \in 0 .. MaxTypes}

RECURSIVE JoinTypes(_)
\* strings.Join(types, ", ")
JoinTypes(types) ==
    IF types = <<>> THEN ""
    ELSE IF Len(types) = 1 THEN types[1]
    ELSE types[1] \o ", " \o JoinTypes(Tail(types))

\* The canonical string of a funcSignature.
renderFuncSignature(sig) ==
    LET paramStr == "(" \o JoinTypes(sig.params) \o ")"
    IN IF Len(sig.results) = 0 THEN paramStr
       ELSE IF Len(sig.results) = 1 THEN paramStr \o " " \o sig.results[1]
       ELSE paramStr \o " (" \o JoinTypes(sig.results) \o ")"

\* The one-entry lists of a function called name, with every signature of
\* at most MaxTypes parameters and MaxTypes results.
OverlapInputs(name) ==
    {<<Item(Sym("p", SymbolFunc, name, <<>>, renderFuncSignature(FS(ps, rs))), FS(ps, rs))>> :
        ps \in TypeLists, rs \in TypeLists}

RECURSIVE Pick(_, _)
\* The items of U at the indices I, in the order of U.
Pick(U, I) ==
    IF I = {} THEN <<>>
    ELSE LET m == CHOOSE i \in I : \A j \in I : i <= j
         IN <<U[m]>> \o Pick(U, I \ {m})

\* The symbol lists (with their signature entries) of at most n entries of U.
InputsUpTo(U, n) ==
    {Pick(U, I) : I \in {J \in SUBSET (1 .. Len(U)) : Cardinality(J) <= n}}

\* The symbol lists (with their signature entries) of at most MaxEntries entries.
Inputs(U) == InputsUpTo(U, MaxEntries)

\* symbols.Symbols.Entries of a list of items.
Entries(items) == [i \in 1 .. Len(items) |-> items[i].sym]

\* The FuncSigMap that goes with a list of items: the entry of a key is the
\* one stored last.
SigMapOf(items) ==
    LET idx == {i \in 1 .. Len(items) : items[i].fs # NoSig}
        keys == {symbolKey(items[i].sym) : i \in idx}
        last(k) == CHOOSE i \in idx : /\ symbolKey(items[i].sym) = k
                                      /\ \A j \in idx : symbolKey(items[j].sym) = k => j <= i
    IN [k \in keys |-> items[last(k)].fs]

\* oldByKey / newByKey as newDiffState builds them: a later entry with the
\* same key overwrites an earlier one.
IndexByKey(entries) ==
    LET keys == {symbolKey(entries[i]) : i \in 1 .. Len(entries)}
        last(k) == CHOOSE i \in 1 .. Len(entries) :
                      /\ symbolKey(entries[i]) = k
                      /\ \A j \in 1 .. Len(entries) : symbolKey(entries[j]) = k => j <= i
    IN [k \in keys |-> entries[last(k)]]

----------------------------------------------------------------------------
VARIABLES
    old, new,               \* the symbol lists passed to DiffExports (Entries)
    oldSigs, newSigs,       \* the FuncSigMaps passed to DiffExports
    oldByKey, newByKey,     \* diffState indices
    unmatchedOldSet, unmatchedNewSet,
    typeRenames,            \* diffState.typeRenames: old type name -> new type name
    changes,                \* diffState.changes, the list DiffExports returns
    pc,                     \* the pass DiffExports runs next
    marks,                  \* history: for changes[i], the pass and the keys it consumed
    exact,                  \* history: the keys Pass 1 consumed silently
    snap,                   \* history: the unmatched sets at the start of each pass
    tree,                   \* the directory tree under rootDir that ParseExports reads
    ctxDone,                \* ctx.Err() != nil
    sourceRoot,             \* ParseExports: the directory FindSourceRoot returned
    todo,                   \* the paths the running filepath.WalkDir has still to visit
    collected,              \* ParseExports: entries, the symbols collected so far
    sigMap,                 \* ParseExports: the FuncSigMap built so far
    ret,                    \* what ParseExports returned
    origin                  \* history: the file each entry and each sigMap key came from

\* The state of ParseExports, which DiffExports leaves alone.
extractVars == <<tree, ctxDone, sourceRoot, todo, collected, sigMap, ret, origin>>

\* The state of DiffExports (without pc), which ParseExports leaves alone.
diffVars == <<old, new, oldSigs, newSigs, oldByKey, newByKey, unmatchedOldSet,
              unmatchedNewSet, typeRenames, changes, marks, exact, snap>>

vars == <<old, new, oldSigs, newSigs, oldByKey, newByKey, unmatchedOldSet,
          unmatchedNewSet, typeRenames, changes, pc, marks, exact, snap,
          tree, ctxDone, sourceRoot, todo, collected, sigMap, ret, origin>>

\* No directory tree: the tree of a run in which ParseExports is not called.
NoTree == [dirs |-> {}, files |-> [x \in {} |-> x]]

\* ParseExports has not returned.
NoReturn == [returned |-> FALSE]

\* The history of an extraction that has collected nothing.
NoOrigin == [entries |-> <<>>, sigs |-> [x \in {} |-> x]]

\* ParseExports is not running.
ExtractorIdle ==
    /\ tree = NoTree
    /\ ctxDone = FALSE
    /\ sourceRoot = <<>>
    /\ todo = <<>>
    /\ collected = <<>>
    /\ sigMap = [x \in {} |-> x]
    /\ ret = NoReturn
    /\ origin = NoOrigin

\* A history record of the unmatched sets.
Unmatched(uo, un) == [old |-> uo, new |-> un]

SnapLabels == {"partB", "renamed", "correlateMethods", "fuzzyMatch", "leftovers"}

\* newDiffState: the state DiffExports starts its passes from, for an old
\* list of OldInputs and a new list of NewInputs.
InitOn(OldInputs, NewInputs) ==
    \E oi \in OldInputs, ni \in NewInputs :
        /\ old = Entries(oi)
        /\ new = Entries(ni)
        /\ oldSigs = SigMapOf(oi)
        /\ newSigs = SigMapOf(ni)
        /\ oldByKey = IndexByKey(Entries(oi))
        /\ newByKey = IndexByKey(Entries(ni))
        /\ unmatchedOldSet = DOMAIN IndexByKey(Entries(oi))
        /\ unmatchedNewSet = DOMAIN IndexByKey(Entries(ni))
        /\ typeRenames = EmptyMap
        /\ changes = <<>>
        /\ pc = "exactMatch"
        /\ marks = <<>>
        /\ exact = {}
        /\ snap = [l \in SnapLabels |-> Unmatched({}, {})]
        /\ ExtractorIdle

InitWith(U) == InitOn(Inputs(U), Inputs(U))

Init == InitWith(Universe)

----------------------------------------------------------------------------
(* The working state the passes thread through their loops:                *)
(* uo, un = unmatchedOldSet, unmatchedNewSet; ch = changes; mk = marks;    *)
(* tr = typeRenames.                                                       *)

Cur == [uo |-> unmatchedOldSet, un |-> unmatchedNewSet, ch |-> changes,
        mk |-> marks, tr |-> typeRenames]

Commit(s) ==
    /\ unmatchedOldSet' = s.uo
    /\ unmatchedNewSet' = s.un
    /\ changes' = s.ch
    /\ marks' = s.mk
    /\ typeRenames' = s.tr

\* markMatched that forgets the old key.
markMatchedNewOnly(s, oldKey, newKey) == [s EXCEPT !.un = @ \ {newKey}]

markMatched(s, oldKey, newKey) ==
    [s EXCEPT !.uo = @ \ {oldKey}, !.un = @ \ {newKey}]

\* emit that puts the Change at the head of the list.
emitPrepend(s, c) == [s EXCEPT !.ch = <<c>> \o @]

emit(s, c) == [s EXCEPT !.ch = Append(@, c)]

\* History only: which pass emitted the Change just appended, and for which keys.
note(s, pass, oldKey, newKey) ==
    [s EXCEPT !.mk = Append(@, [pass |-> pass, oldKey |-> oldKey, newKey |-> newKey])]

\* The slices unmatchedOld() / unmatchedNew() can return: the keys of the
\* set in any order.
unmatchedOld(s) == Perms(s.uo)
unmatchedNew(s) == Perms(s.un)

\* A changespec.Change; fields the code leaves out are the empty string.
Change(kind, oldSym, newSig, newName, conf) ==
    [Kind |-> kind, Symbol |-> oldSym.Name, Package |-> oldSym.Package,
     OldSignature |-> oldSym.Signature, NewSignature |-> newSig,
     NewName |-> newName, NewPackage |-> "", Confidence |-> conf]

----------------------------------------------------------------------------
(* Pass 1: exactMatch *)

\* exactSame, comparing the signatures of functions only.
exactSameFuncOnly(oldSym, newSym) ==
    oldSym.Kind = SymbolFunc /\ oldSym.Signature = newSym.Signature

\* The test of exactMatch on a key present on both sides.
exactSame(oldSym, newSym) == oldSym.Signature = newSym.Signature

\* The keys exactMatch consumes.  Each iteration reads and deletes its own
\* key only, so the iteration order does not show in the result.
exactMatched(uo) ==
    {key \in uo : key \in DOMAIN newByKey /\ exactSame(oldByKey[key], newByKey[key])}

\* The states exactMatch can end in (one: it does not depend on the order).
exactMatchOutcomes(s) ==
    {[s EXCEPT !.uo = @ \ exactMatched(s.uo), !.un = @ \ exactMatched(s.uo)]}

exactMatch ==
    /\ pc = "exactMatch"
    /\ \E s \in exactMatchOutcomes(Cur) : Commit(s)
    /\ exact' = exactMatched(unmatchedOldSet)
    /\ pc' = "changed"
    /\ UNCHANGED <<old, new, oldSigs, newSigs, oldByKey, newByKey, snap>>
    /\ UNCHANGED extractVars

----------------------------------------------------------------------------
(* Pass 2: changed *)

\* partAKind without the type / interface case.
partAKindAlwaysSignature(oldSym) == ChangeKindSignatureChanged

\* Part A's choice of the Change kind.
partAKind(oldSym) ==
    IF oldSym.Kind = SymbolType \/ oldSym.Kind = SymbolInterface
    THEN ChangeKindTypeChanged
    ELSE ChangeKindSignatureChanged

partAChange(oldSym, newSym) ==
    Change(partAKind(oldSym), oldSym, newSym.Signature, <<>>, ConfidenceHigh)

RECURSIVE changedPartA(_, _)
\* The loop of Part A over the slice keys.
changedPartA(s, keys) ==
    IF keys = <<>> THEN s
    ELSE LET key == Head(keys)
             rest == Tail(keys)
         IN IF key \notin DOMAIN newByKey THEN changedPartA(s, rest)
            ELSE LET oldSym == oldByKey[key]
                     newSym == newByKey[key]
                 IN IF oldSym.Signature = newSym.Signature
                    THEN changedPartA(s, rest)
                    ELSE changedPartA(
                           markMatched(
                             note(emit(s, partAChange(oldSym, newSym)), "changedA", key, key),
                             key, key),
                           rest)

nameKey(key) == [pkg |-> key.pkg, name |-> key.name]

\* oldByName / newByName after the loop that fills it from the slice keys:
\* the last key of a name overwrites the earlier ones.
byName(keys) ==
    LET nks == {nameKey(keys[i]) : i \in 1 .. Len(keys)}
        last(nk) == CHOOSE i \in 1 .. Len(keys) :
                       /\ nameKey(keys[i]) = nk
                       /\ \A j \in 1 .. Len(keys) : nameKey(keys[j]) = nk => j <= i
    IN [nk \in nks |-> keys[last(nk)]]

\* crossKind with the comparison inverted.
crossKindInverted(oldKey, newKey) == oldKey.kind = newKey.kind

\* Part B's test that the two symbols of one name are of different kinds.
crossKind(oldKey, newKey) == oldKey.kind # newKey.kind

partBChange(oldSym, newSym) ==
    Change(ChangeKindTypeChanged, oldSym, newSym.Signature, <<>>, ConfidenceHigh)

RECURSIVE changedPartB(_, _, _, _)
\* The loop of Part B over oldByName, visited in the order nks.
changedPartB(s, oldByName, newByName, nks) ==
    IF nks = <<>> THEN s
    ELSE LET nk == Head(nks)
             rest == Tail(nks)
         IN IF nk \notin DOMAIN newByName
            THEN changedPartB(s, oldByName, newByName, rest)
            ELSE LET oldKey == oldByName[nk]
                     newKey == newByName[nk]
                 IN IF ~crossKind(oldKey, newKey)
                    THEN changedPartB(s, oldByName, newByName, rest)
                    ELSE changedPartB(
                           markMatched(
                             note(emit(s, partBChange(oldByKey[oldKey], newByKey[newKey])),
                                  "changedB", oldKey, newKey),
                             oldKey, newKey),
                           oldByName, newByName, rest)

\* The states Part A can end in, one for each order of unmatchedOld().
partAOutcomes(s) == {changedPartA(s, keys) : keys \in unmatchedOld(s)}

\* The states Part B can end in from sA: one for each pair of name indices
\* the two filling loops can leave and each order of the loop over oldByName.
partBOutcomes(sA) ==
    UNION {UNION {{changedPartB(sA, oldByName, newByName, nks) :
                      nks \in Perms(DOMAIN oldByName)} :
                  newByName \in {byName(keys) : keys \in unmatchedNew(sA)}} :
           oldByName \in {byName(keys) : keys \in unmatchedOld(sA)}}

changedOutcomes(s) == UNION {partBOutcomes(sA) : sA \in partAOutcomes(s)}

\* History only: the unmatched sets between Part A and Part B (the same
\* after every order of Part A).
afterPartA(s) ==
    LET sA == CHOOSE x \in partAOutcomes(s) : TRUE IN Unmatched(sA.uo, sA.un)

changed ==
    /\ pc = "changed"
    /\ \E s \in changedOutcomes(Cur) : Commit(s)
    /\ snap' = [snap EXCEPT !["partB"] = afterPartA(Cur)]
    /\ pc' = "renamed"
    /\ UNCHANGED <<old, new, oldSigs, newSigs, oldByKey, newByKey, exact>>
    /\ UNCHANGED extractVars

----------------------------------------------------------------------------
(* Pass 3: renamed *)

\* The group key without the kind.
sigGroupKeyNoKind(sym) == [sig |-> sym.Signature, kind |-> "", pkg |-> sym.Package]

\* sigKey: what renamed groups the unmatched symbols by.
sigGroupKey(sym) == [sig |-> sym.Signature, kind |-> sym.Kind, pkg |-> sym.Package]

\* removedBySig / addedBySig.  The code keeps the keys of a group in a slice
\* and reads a slice only when it has exactly one element, so a group is
\* modelled as the set of its keys.
groupBySig(keys, byKey) ==
    [gk \in {sigGroupKey(byKey[k]) : k \in keys} |->
        {k \in keys : sigGroupKey(byKey[k]) = gk}]

\* collision with the bound off by one.
collisionAtLeastOne(oldKeys, newKeys) ==
    Cardinality(oldKeys) >= 1 \/ Cardinality(newKeys) >= 1

\* collision that looks at the old side only.
collisionOldOnly(oldKeys, newKeys) == Cardinality(oldKeys) > 1

\* The collision test of renamed.
collision(oldKeys, newKeys) == Cardinality(oldKeys) > 1 \/ Cardinality(newKeys) > 1

\* trivialSignature without the "()" case.
trivialSignatureEmptyOnly(sig) == sig = ""

\* The trivial-signature guard of renamed.
trivialSignature(sig) == sig = "" \/ sig = "()"

\* renamedChange with Symbol and Package taken from the new side.
renamedChangeNewSide(oldSym, newSym) ==
    Change(ChangeKindRenamed, newSym, newSym.Signature, newSym.Name, ConfidenceHigh)

renamedChange(oldSym, newSym) ==
    Change(ChangeKindRenamed, oldSym, newSym.Signature, newSym.Name, ConfidenceHigh)

\* The tracking of type and interface renames at the end of renamed's loop body.
trackTypeRename(tr, oldSym, newSym) ==
    IF oldSym.Kind = SymbolType \/ oldSym.Kind = SymbolInterface
    THEN MapPut(tr, oldSym.Name, newSym.Name)
    ELSE tr

RECURSIVE renamedLoop(_, _, _, _)
\* The loop of renamed over removedBySig, visited in the order gks.
renamedLoop(s, removedBySig, addedBySig, gks) ==
    IF gks = <<>> THEN s
    ELSE LET gk == Head(gks)
             rest == Tail(gks)
         IN IF gk \notin DOMAIN addedBySig
            THEN renamedLoop(s, removedBySig, addedBySig, rest)
            ELSE IF collision(removedBySig[gk], addedBySig[gk])
            THEN renamedLoop(s, removedBySig, addedBySig, rest)
            ELSE LET oldKey == CHOOSE k \in removedBySig[gk] : TRUE
                     newKey == CHOOSE k \in addedBySig[gk] : TRUE
                     oldSym == oldByKey[oldKey]
                     newSym == newByKey[newKey]
                 IN IF trivialSignature(oldSym.Signature)
                    THEN renamedLoop(s, removedBySig, addedBySig, rest)
                    ELSE LET s1 == markMatched(
                                     note(emit(s, renamedChange(oldSym, newSym)),
                                          "renamed", oldKey, newKey),
                                     oldKey, newKey)
                             s2 == [s1 EXCEPT !.tr = trackTypeRename(@, oldSym, newSym)]
                         IN renamedLoop(s2, removedBySig, addedBySig, rest)

\* The states renamed can end in, one for each order of the loop over
\* removedBySig.
renamedOutcomes(s) ==
    LET removedBySig == groupBySig(s.uo, oldByKey)
        addedBySig == groupBySig(s.un, newByKey)
    IN {renamedLoop(s, removedBySig, addedBySig, gks) : gks \in Perms(DOMAIN removedBySig)}

renamed ==
    /\ pc = "renamed"
    /\ \E s \in renamedOutcomes(Cur) : Commit(s)
    /\ snap' = [snap EXCEPT !["renamed"] = Unmatched(unmatchedOldSet, unmatchedNewSet)]
    /\ pc' = "correlateMethods"
    /\ UNCHANGED <<old, new, oldSigs, newSigs, oldByKey, newByKey, exact>>
    /\ UNCHANGED extractVars

----------------------------------------------------------------------------
(* Pass 4: correlateMethods *)

RECURSIVE indexDot(_, _)
\* strings.Index(name, "."), counted from 1: the position of the first dot
\* at or after position i, 0 when there is none.
indexDot(name, i) ==
    IF i > Len(name) THEN 0
    ELSE IF name[i] = "." THEN i
    ELSE indexDot(name, i + 1)

\* The key correlateMethods probes for a member of a renamed type.
expectedKey(oldSym, newReceiver, member) ==
    [pkg |-> oldSym.Package, kind |-> oldSym.Kind, name |-> newReceiver \o <<".">> \o member]

\* The test that the probed key can still be matched.
probeUnmatched(s, expectedNewKey) == expectedNewKey \in s.un

\* correlatedChange with NewName set in both branches.
correlatedChangeKeepsName(oldSym, newSym) ==
    IF oldSym.Signature = newSym.Signature
    THEN Change(ChangeKindRenamed, oldSym, newSym.Signature, newSym.Name, ConfidenceHigh)
    ELSE Change(ChangeKindSignatureChanged, oldSym, newSym.Signature, newSym.Name,
                ConfidenceHigh)

correlatedChange(oldSym, newSym) ==
    IF oldSym.Signature = newSym.Signature
    THEN Change(ChangeKindRenamed, oldSym, newSym.Signature, newSym.Name, ConfidenceHigh)
    ELSE Change(ChangeKindSignatureChanged, oldSym, newSym.Signature, <<>>, ConfidenceHigh)

RECURSIVE correlateLoop(_, _)
\* The loop of correlateMethods over the slice keys.
correlateLoop(s, keys) ==
    IF keys = <<>> THEN s
    ELSE LET oldKey == Head(keys)
             rest == Tail(keys)
             oldSym == oldByKey[oldKey]
             dotIdx == indexDot(oldSym.Name, 1)
         IN IF oldSym.Kind # SymbolMethod /\ oldSym.Kind # SymbolField
            THEN correlateLoop(s, rest)
            ELSE IF dotIdx = 0 THEN correlateLoop(s, rest)
            ELSE LET receiver == SubSeq(oldSym.Name, 1, dotIdx - 1)
                     member == SubSeq(oldSym.Name, dotIdx + 1, Len(oldSym.Name))
                 IN IF receiver \notin DOMAIN s.tr THEN correlateLoop(s, rest)
                    ELSE LET expectedNewKey == expectedKey(oldSym, s.tr[receiver], member)
                         IN IF ~probeUnmatched(s, expectedNewKey)
                            THEN correlateLoop(s, rest)
                            ELSE correlateLoop(
                                   markMatched(
                                     note(emit(s, correlatedChange(oldSym,
                                                                   newByKey[expectedNewKey])),
                                          "correlateMethods", oldKey, expectedNewKey),
                                     oldKey, expectedNewKey),
                                   rest)

\* The states correlateMethods can end in.
correlateOutcomes(s) ==
    IF DOMAIN s.tr = {} THEN {s}
    ELSE {correlateLoop(s, keys) : keys \in unmatchedOld(s)}

correlateMethods ==
    /\ pc = "correlateMethods"
    /\ \E s \in correlateOutcomes(Cur) : Commit(s)
    /\ snap' = [snap EXCEPT !["correlateMethods"] =
                               Unmatched(unmatchedOldSet, unmatchedNewSet)]
    /\ pc' = "fuzzyMatch"
    /\ UNCHANGED <<old, new, oldSigs, newSigs, oldByKey, newByKey, exact>>
    /\ UNCHANGED extractVars

----------------------------------------------------------------------------
(* Similarity helpers.  The code computes in float64; the model computes    *)
(* in exact rationals.  On the names and type lists the inputs are drawn   *)
(* from, the two agree on every threshold test and, among accepted         *)
(* candidates, on every comparison of two scores.                          *)

RECURSIVE levRow(_, _, _, _, _)
\* The inner loop of levenshteinDistance for row i: curr holds the cells
\* curr[0 .. Len(curr)-1] already written (cell k at index k + 1).
levRow(a, b, i, prev, curr) ==
    LET j == Len(curr)
    IN IF j > Len(b) THEN curr
       ELSE LET cost == IF a[i] = b[j] THEN 0 ELSE 1
                del == prev[j + 1] + 1
                ins == curr[j] + 1
                sub == prev[j] + cost
            IN levRow(a, b, i, prev, Append(curr, Min2(del, Min2(ins, sub))))

\* levRows that never swaps the rows: only the last row is computed, from
\* the initial row.
levRowsNoSwap(a, b, i, prev) == levRow(a, b, Len(a), prev, <<Len(a)>>)

RECURSIVE levRows(_, _, _, _)
\* The outer loop: after row i the finished row becomes prev.
levRows(a, b, i, prev) ==
    IF i > Len(a) THEN prev
    ELSE levRows(a, b, i + 1, levRow(a, b, i, prev, <<i>>))

levenshteinDistance(a, b) ==
    IF Len(a) = 0 THEN Len(b)
    ELSE IF Len(b) = 0 THEN Len(a)
    ELSE levRows(a, b, 1, [j \in 1 .. Len(b) + 1 |-> j - 1])[Len(b) + 1]

nameSimilarity(a, b) ==
    IF Len(a) = 0 /\ Len(b) = 0 THEN [n |-> 1, d |-> 1]
    ELSE LET maxLen == Max2(Len(a), Len(b))
         IN [n |-> maxLen - levenshteinDistance(a, b), d |-> maxLen]

\* The map[string]int a list of type strings is counted into.
countTypes(types) ==
    [t \in {types[i] : i \in DOMAIN types} |-> Cardinality({i \in DOMAIN types : types[i] = t})]

\* paramOverlap that divides by the number of types of a.
paramOverlapOverFirst(a, b) ==
    LET aAll == a.params \o a.results
        bAll == b.params \o b.results
        aSet == countTypes(aAll)
        bSet == countTypes(bAll)
        bc(k) == IF k \in DOMAIN bSet THEN bSet[k] ELSE 0
        intersection == SumOver(DOMAIN aSet, [k \in DOMAIN aSet |-> Min2(aSet[k], bc(k))])
    IN IF Len(aAll) = 0 /\ Len(bAll) = 0 THEN [n |-> 1, d |-> 1]
       ELSE [n |-> intersection, d |-> Max2(1, Len(aAll))]

paramOverlap(a, b) ==
    LET aAll == a.params \o a.results
        bAll == b.params \o b.results
        aSet == countTypes(aAll)
        bSet == countTypes(bAll)
        bc(k) == IF k \in DOMAIN bSet THEN bSet[k] ELSE 0
        intersection == SumOver(DOMAIN aSet, [k \in DOMAIN aSet |-> Min2(aSet[k], bc(k))])
        union == SumOver(DOMAIN aSet, [k \in DOMAIN aSet |-> Max2(aSet[k], bc(k))])
                 + SumOver(DOMAIN bSet \ DOMAIN aSet, bSet)
    IN IF Len(aAll) = 0 /\ Len(bAll) = 0 THEN [n |-> 1, d |-> 1]
       ELSE IF union = 0 THEN [n |-> 1, d |-> 1]
       ELSE [n |-> intersection, d |-> union]

----------------------------------------------------------------------------
(* Pass 5: fuzzyMatch *)

\* The short name guard.
nameThreshold(oldName, newName) ==
    IF Max2(Len(oldName), Len(newName)) < ShortNameLength
    THEN ShortNameMinSimilarity
    ELSE MinNameSimilarity

\* accepted without the test of the parameter overlap.
acceptedNameOnly(nameSim, overlap, threshold) == RatGE(nameSim, threshold)

\* accepted without the test of the name similarity.
acceptedOverlapOnly(nameSim, overlap, threshold) == RatGE(overlap, MinParamOverlap)

\* The acceptance test of a candidate pair.
accepted(nameSim, overlap, threshold) ==
    RatGE(nameSim, threshold) /\ RatGE(overlap, MinParamOverlap)

\* The scoredPair of two keys, in a one-element list, or no element when the
\* pair is not accepted.
candidate(oldKey, newKey) ==
    LET oldSym == oldByKey[oldKey]
        newSym == newByKey[newKey]
        nameSim == nameSimilarity(oldSym.Name, newSym.Name)
        overlap == paramOverlap(oldSigs[oldKey], newSigs[newKey])
    IN IF accepted(nameSim, overlap, nameThreshold(oldSym.Name, newSym.Name))
       THEN << [oldKey |-> oldKey, newKey |-> newKey,
                score |-> RatMul(nameSim, overlap), oldName |-> oldSym.Name] >>
       ELSE <<>>

RECURSIVE candidatesInner(_, _)
candidatesInner(oldKey, newFuncKeys) ==
    IF newFuncKeys = <<>> THEN <<>>
    ELSE candidate(oldKey, Head(newFuncKeys)) \o candidatesInner(oldKey, Tail(newFuncKeys))

RECURSIVE buildCandidates(_, _)
\* The nested loops that build candidates: old keys outside, new keys inside.
buildCandidates(oldFuncKeys, newFuncKeys) ==
    IF oldFuncKeys = <<>> THEN <<>>
    ELSE candidatesInner(Head(oldFuncKeys), newFuncKeys)
         \o buildCandidates(Tail(oldFuncKeys), newFuncKeys)

\* candidateLess without the tie-break on the old name.
candidateLessByScoreOnly(x, y) == RatGT(x.score, y.score)

\* The less function handed to sort.SliceStable.
candidateLess(x, y) ==
    IF ~RatEQ(x.score, y.score) THEN RatGT(x.score, y.score)
    ELSE StrLess(x.oldName, y.oldName)

RECURSIVE insertStable(_, _)
\* x placed into the sorted list after every element it is not less than.
insertStable(sorted, x) ==
    IF sorted = <<>> THEN <<x>>
    ELSE IF candidateLess(x, Head(sorted)) THEN <<x>> \o sorted
    ELSE <<Head(sorted)>> \o insertStable(Tail(sorted), x)

RECURSIVE sortStable(_, _)
\* sort.SliceStable: elements that compare equal keep their order.
sortStable(sorted, rest) ==
    IF rest = <<>> THEN sorted
    ELSE sortStable(insertStable(sorted, Head(rest)), Tail(rest))

\* bothUnmatched without the two lookups.
bothUnmatchedSkipped(s, pair) == TRUE

\* The test of the greedy loop that both sides of a pair are still unmatched.
bothUnmatched(s, pair) == pair.oldKey \in s.uo /\ pair.newKey \in s.un

\* fuzzyChange with the Confidence field left out.
fuzzyChangeNoConfidence(oldSym, newSym) ==
    Change(ChangeKindRenamed, oldSym, newSym.Signature, newSym.Name, "")

fuzzyChange(oldSym, newSym) ==
    Change(ChangeKindRenamed, oldSym, newSym.Signature, newSym.Name, ConfidenceMedium)

RECURSIVE greedyLoop(_, _)
greedyLoop(s, pairs) ==
    IF pairs = <<>> THEN s
    ELSE LET pair == Head(pairs)
         IN IF ~bothUnmatched(s, pair) THEN greedyLoop(s, Tail(pairs))
            ELSE greedyLoop(
                   markMatched(
                     note(emit(s, fuzzyChange(oldByKey[pair.oldKey], newByKey[pair.newKey])),
                          "fuzzyMatch", pair.oldKey, pair.newKey),
                     pair.oldKey, pair.newKey),
                   Tail(pairs))

\* The keys of a slice that have a funcSignature entry, in the slice's order.
funcKeys(keys, sigs) == SelectSeq(keys, LAMBDA k : k \in DOMAIN sigs)

\* The run of fuzzyMatch on the two filtered slices.
fuzzyRun(s, oldFuncKeys, newFuncKeys) ==
    IF Len(oldFuncKeys) = 0 \/ Len(newFuncKeys) = 0 THEN s
    ELSE greedyLoop(s, sortStable(<<>>, buildCandidates(oldFuncKeys, newFuncKeys)))

\* The states fuzzyMatch can end in, one for each pair of slice orders.
fuzzyOutcomes(s) ==
    UNION {{fuzzyRun(s, oldFuncKeys, newFuncKeys) :
               newFuncKeys \in {funcKeys(keys, newSigs) : keys \in unmatchedNew(s)}} :
           oldFuncKeys \in {funcKeys(keys, oldSigs) : keys \in unmatchedOld(s)}}

fuzzyMatch ==
    /\ pc = "fuzzyMatch"
    /\ \E s \in fuzzyOutcomes(Cur) : Commit(s)
    /\ snap' = [snap EXCEPT !["fuzzyMatch"] = Unmatched(unmatchedOldSet, unmatchedNewSet)]
    /\ pc' = "leftovers"
    /\ UNCHANGED <<old, new, oldSigs, newSigs, oldByKey, newByKey, exact>>
    /\ UNCHANGED extractVars

----------------------------------------------------------------------------
(* Pass 6: leftovers *)

\* removedChange with the confidence of the fuzzy pass.
removedChangeMedium(oldSym) ==
    Change(ChangeKindRemoved, oldSym, "", <<>>, ConfidenceMedium)

removedChange(oldSym) ==
    Change(ChangeKindRemoved, oldSym, "", <<>>, ConfidenceLow)

\* leftoverSyms reporting the unmatched new symbols as well.
leftoverSymsWithAdded(s) ==
    {oldByKey[key] : key \in s.uo} \cup {newByKey[key] : key \in s.un}

\* The symbols leftovers reports: oldSym of every key of unmatchedOldSet.
leftoverSyms(s) == {oldByKey[key] : key \in s.uo}

RECURSIVE leftoversLoop(_, _)
\* The loop of leftovers over the symbols syms; it emits and leaves the
\* unmatched sets alone.
leftoversLoop(s, syms) ==
    IF syms = <<>> THEN s
    ELSE leftoversLoop(
           note(emit(s, removedChange(Head(syms))), "leftovers", symbolKey(Head(syms)), NoKey),
           Tail(syms))

\* The states leftovers can end in, one for each order of the loop.
leftoversOutcomes(s) == {leftoversLoop(s, syms) : syms \in Perms(leftoverSyms(s))}

leftovers ==
    /\ pc = "leftovers"
    /\ \E s \in leftoversOutcomes(Cur) : Commit(s)
    /\ snap' = [snap EXCEPT !["leftovers"] = Unmatched(unmatchedOldSet, unmatchedNewSet)]
    /\ pc' = "done"
    /\ UNCHANGED <<old, new, oldSigs, newSigs, oldByKey, newByKey, exact>>
    /\ UNCHANGED extractVars

----------------------------------------------------------------------------
(* DiffExports: the six passes in order; at pc = "done" it returns changes. *)

Next ==
    \/ exactMatch
    \/ changed
    \/ renamed
    \/ correlateMethods
    \/ fuzzyMatch
    \/ leftovers

Spec == Init /\ [][Next]_vars

\* DiffExports on the lists drawn from FuzzyUniverse.
InitFuzzy == InitWith(FuzzyUniverse)

SpecFuzzy == InitFuzzy /\ [][Next]_vars

\* DiffExports on the lists of at most MaxTypeEntries entries of TypeUniverse.
InitTypes ==
    InitOn(InputsUpTo(TypeUniverse, MaxTypeEntries), InputsUpTo(TypeUniverse, MaxTypeEntries))

SpecTypes == InitTypes /\ [][Next]_vars

\* DiffExports on one old and one new function drawn from NameInputs.
InitNames == InitOn(NameInputs, NameInputs)

SpecNames == InitNames /\ [][Next]_vars

\* DiffExports on one old function Fooa and one new function Foob drawn
\* from OverlapInputs.
InitOverlap == InitOn(OverlapInputs(nFooa), OverlapInputs(nFoob))

SpecOverlap == InitOverlap /\ [][Next]_vars

\* The state newDiffState leaves for the inputs of this call.
Start ==
    [uo |-> DOMAIN oldByKey, un |-> DOMAIN newByKey, ch |-> <<>>, mk |-> <<>>,
     tr |-> EmptyMap]

\* Every state a call of DiffExports on the inputs of this call can end in.
DiffExportsOutcomes ==
    LET s1 == exactMatchOutcomes(Start)
        s2 == UNION {changedOutcomes(s) : s \in s1}
        s3 == UNION {renamedOutcomes(s) : s \in s2}
        s4 == UNION {correlateOutcomes(s) : s \in s3}
        s5 == UNION {fuzzyOutcomes(s) : s \in s4}
    IN UNION {leftoversOutcomes(s) : s \in s5}

\* The lists DiffExports can return on the inputs of this call.
DiffExportsResults == {s.ch : s \in DiffExportsOutcomes}

----------------------------------------------------------------------------
(* Properties of DiffExports *)

\* DiffExports has returned; changes is the returned list.
Done == pc = "done"

\* The positions of the Changes whose subject is the old key k.
ChangesFor(k) == {i \in DOMAIN marks : marks[i].oldKey = k}

\* The positions of the Changes that consumed the new key k.
ChangesOnto(k) == {i \in DOMAIN marks : marks[i].newKey = k}

DistinctKeys(entries) ==
    \A i, j \in DOMAIN entries : i # j => symbolKey(entries[i]) # symbolKey(entries[j])

\* C1. Identity: when the old and the new list are the same list and the two
\* signature maps are the same map, DiffExports returns the empty list.
C1_Identity ==
    (Done /\ old = new /\ oldSigs = newSigs) => changes = <<>>

\* A call with two same lists of two entries has returned.
C1_Witness ==
    Done /\ old = new /\ oldSigs = newSigs /\ Cardinality(exact) = 2

\* C2. At most one match: no old key is the subject of two Changes, or of a
\* Change and a silent Pass 1 match; no new key is consumed by two matches.
C2_AtMostOneMatch ==
    /\ \A i, j \in DOMAIN marks : i # j => marks[i].oldKey # marks[j].oldKey
    /\ \A i \in DOMAIN marks : marks[i].oldKey \notin exact
    /\ \A i, j \in DOMAIN marks :
         (i # j /\ marks[i].newKey # NoKey) => marks[i].newKey # marks[j].newKey
    /\ \A i \in DOMAIN marks : marks[i].newKey \notin exact

\* A call in which Pass 5 matched one old function and left another one,
\* which also has a signature entry, to Pass 6.
C2_Witness ==
    /\ Done
    /\ \E i, j \in DOMAIN marks :
         /\ marks[i].pass = "fuzzyMatch"
         /\ marks[j].pass = "leftovers"
         /\ marks[j].oldKey \in DOMAIN oldSigs

\* C3. Determinism: every run of DiffExports on the inputs of this call
\* returns the list this run returns.
C3_Determinism ==
    Done => \A r \in DiffExportsResults : r = changes

\* C4. Empty new list: with distinct old keys, the returned list has exactly
\* one Change per old entry, naming that entry, each removed / low.
C4_EmptyNew ==
    (Done /\ new = <<>> /\ DistinctKeys(old)) =>
        /\ Len(changes) = Len(old)
        /\ \A i \in DOMAIN changes :
             changes[i].Kind = ChangeKindRemoved /\ changes[i].Confidence = ConfidenceLow
        /\ \A e \in DOMAIN old :
             /\ Cardinality(ChangesFor(symbolKey(old[e]))) = 1
             /\ \A i \in ChangesFor(symbolKey(old[e])) :
                  changes[i].Symbol = old[e].Name /\ changes[i].Package = old[e].Package

\* A call with two old entries and no new entry has returned.
C4_Witness ==
    Done /\ new = <<>> /\ DistinctKeys(old) /\ Len(old) = 2

\* C5. Empty old list: DiffExports returns the empty list.
C5_EmptyOld ==
    (Done /\ old = <<>>) => changes = <<>>

\* A call with no old entry and two new entries has returned.
C5_Witness ==
    Done /\ old = <<>> /\ Len(new) = 2

\* C6. Every Change names, by (symbol, package), a symbol of the old list.
C6_OldSideFields ==
    \A i \in DOMAIN changes :
        \E e \in DOMAIN old :
            changes[i].Symbol = old[e].Name /\ changes[i].Package = old[e].Package

\* A rename whose new name, and a fuzzy rename whose new symbol's package,
\* occur nowhere in the old list.
C6_Witness ==
    /\ Done
    /\ \E i \in DOMAIN changes :
         /\ marks[i].pass = "renamed"
         /\ \A e \in DOMAIN old : old[e].Name # changes[i].NewName
    /\ \E i \in DOMAIN changes :
         /\ marks[i].pass = "fuzzyMatch"
         /\ \A e \in DOMAIN old : old[e].Package # marks[i].newKey.pkg

\* C7. NewName is set on renamed Changes only, and there it is the name of
\* the new symbol the old symbol was matched with.
C7_NewName ==
    \A i \in DOMAIN changes :
        /\ changes[i].NewName # <<>> => changes[i].Kind = ChangeKindRenamed
        /\ changes[i].Kind = ChangeKindRenamed =>
             /\ marks[i].newKey \in DOMAIN newByKey
             /\ changes[i].NewName = newByKey[marks[i].newKey].Name
             /\ changes[i].NewName # <<>>

\* Pass 4 has emitted a signature_changed for a member of a renamed type.
C7_Witness ==
    /\ Done
    /\ \E i \in DOMAIN changes :
         /\ marks[i].pass = "correlateMethods"
         /\ changes[i].Kind = ChangeKindSignatureChanged
    /\ \E i \in DOMAIN changes : changes[i].Kind = ChangeKindRenamed

\* C8. Pass 2 Part A: a key present on both sides with two different
\* signatures is the subject of exactly one Change: high, with the two
\* signatures, type_changed for a type or interface and signature_changed
\* for every other kind.
C8_PartA ==
    Done =>
      \A k \in DOMAIN oldByKey \cap DOMAIN newByKey :
        oldByKey[k].Signature # newByKey[k].Signature =>
          /\ Cardinality(ChangesFor(k)) = 1
          /\ \A i \in ChangesFor(k) :
               /\ changes[i].Confidence = ConfidenceHigh
               /\ changes[i].OldSignature = oldByKey[k].Signature
               /\ changes[i].NewSignature = newByKey[k].Signature
               /\ changes[i].Symbol = k.name
               /\ changes[i].Package = k.pkg
               /\ changes[i].Kind =
                    IF k.kind \in {SymbolType, SymbolInterface}
                    THEN ChangeKindTypeChanged
                    ELSE ChangeKindSignatureChanged

\* A call in which a type and a function both changed their signature.
C8_Witness ==
    /\ Done
    /\ \E k1, k2 \in DOMAIN oldByKey \cap DOMAIN newByKey :
         /\ k1.kind = SymbolType
         /\ k2.kind = SymbolFunc
         /\ oldByKey[k1].Signature # newByKey[k1].Signature
         /\ oldByKey[k2].Signature # newByKey[k2].Signature

\* An old and a new key, both unmatched after Part A, of one (package, name)
\* and of different kinds.
CrossKindPair(o, n) ==
    /\ o \in snap["partB"].old
    /\ n \in snap["partB"].new
    /\ nameKey(o) = nameKey(n)
    /\ o.kind # n.kind

\* Part B reported o as type_changed / high, exactly once, and consumed n.
CrossKindReported(o, n) ==
    /\ Cardinality(ChangesFor(o)) = 1
    /\ \A i \in ChangesFor(o) :
         /\ marks[i].pass = "changedB"
         /\ changes[i].Kind = ChangeKindTypeChanged
         /\ changes[i].Confidence = ConfidenceHigh
    /\ \E i \in ChangesOnto(n) : marks[i].pass = "changedB"

\* C9 as stated. Pass 2 Part B: every old and new symbol that are unmatched
\* after Part A and share (package, name) with different kinds: the old one
\* gets exactly one type_changed / high and both are marked matched.
C9_CrossKindAny ==
    Done => \A o \in DOMAIN oldByKey, n \in DOMAIN newByKey :
              CrossKindPair(o, n) => CrossKindReported(o, n)

\* No other key unmatched after Part A has the (package, name) of o and n.
OnlyOfName(o, n) ==
    /\ \A o2 \in snap["partB"].old : nameKey(o2) = nameKey(o) => o2 = o
    /\ \A n2 \in snap["partB"].new : nameKey(n2) = nameKey(n) => n2 = n

\* C9 amended. The same, for an old and a new symbol that are the only
\* unmatched old and the only unmatched new symbol of their (package, name);
\* the Change is the one that consumed the new symbol.
C9_CrossKindUnique ==
    Done => \A o \in DOMAIN oldByKey, n \in DOMAIN newByKey :
              (CrossKindPair(o, n) /\ OnlyOfName(o, n)) =>
                 /\ CrossKindReported(o, n)
                 /\ \A i \in ChangesFor(o) : marks[i].newKey = n

\* A call with such a pair, next to another unmatched old symbol.
C9_Witness ==
    /\ Done
    /\ \E o \in DOMAIN oldByKey, n \in DOMAIN newByKey :
         CrossKindPair(o, n) /\ OnlyOfName(o, n)
    /\ Cardinality(snap["partB"].old) = 2

\* When Pass 3 starts, o and n are the only unmatched old and the only
\* unmatched new symbol of their (signature, kind, package), and the
\* signature is neither empty nor "()".
RenamePair(o, n) ==
    /\ o \in snap["renamed"].old
    /\ n \in snap["renamed"].new
    /\ sigGroupKey(oldByKey[o]) = sigGroupKey(newByKey[n])
    /\ \A o2 \in snap["renamed"].old :
         sigGroupKey(oldByKey[o2]) = sigGroupKey(oldByKey[o]) => o2 = o
    /\ \A n2 \in snap["renamed"].new :
         sigGroupKey(newByKey[n2]) = sigGroupKey(newByKey[n]) => n2 = n
    /\ oldByKey[o].Signature \notin {"", "()"}

\* C10. Pass 3: such a pair yields exactly one Change for the old symbol:
\* renamed / high, from the old name to the new name; both are matched.
C10_Pass3Rename ==
    Done => \A o \in DOMAIN oldByKey, n \in DOMAIN newByKey :
              RenamePair(o, n) =>
                 /\ Cardinality(ChangesFor(o)) = 1
                 /\ \A i \in ChangesFor(o) :
                      /\ marks[i].pass = "renamed"
                      /\ marks[i].newKey = n
                      /\ changes[i].Kind = ChangeKindRenamed
                      /\ changes[i].Confidence = ConfidenceHigh
                      /\ changes[i].Symbol = o.name
                      /\ changes[i].NewName = n.name
                 /\ ChangesOnto(n) = ChangesFor(o)
                 /\ o \notin unmatchedOldSet
                 /\ n \notin unmatchedNewSet

\* A call in which Pass 3 met two such pairs.
C10_Witness ==
    /\ Done
    /\ \E o1, o2 \in DOMAIN oldByKey, n1, n2 \in DOMAIN newByKey :
         o1 # o2 /\ RenamePair(o1, n1) /\ RenamePair(o2, n2)

\* The old signature of a Change is the empty string or "()".
TrivialOld(c) == c.OldSignature = "" \/ c.OldSignature = "()"

\* C11 as stated. No renamed / high Change, of Pass 3 or of Pass 4, has an
\* old symbol whose signature is the empty string or "()".
C11_NoTrivialHighRename ==
    \A i \in DOMAIN changes :
        (changes[i].Kind = ChangeKindRenamed /\ changes[i].Confidence = ConfidenceHigh)
            => ~TrivialOld(changes[i])

\* C11 amended. Pass 3 emits no Change, and so no renamed / high one, for an
\* old symbol whose signature is the empty string or "()"; a renamed / high
\* Change with such a signature comes from Pass 4.
C11_Pass3TrivialGuard ==
    /\ \A i \in DOMAIN changes : marks[i].pass = "renamed" => ~TrivialOld(changes[i])
    /\ \A i \in DOMAIN changes :
         (changes[i].Kind = ChangeKindRenamed /\ changes[i].Confidence = ConfidenceHigh
            /\ TrivialOld(changes[i])) => marks[i].pass = "correlateMethods"

\* A call in which Pass 3 met an old and a new symbol that are alone in
\* their (signature, kind, package) group, with the signature "()".
C11_Witness ==
    /\ Done
    /\ \E o \in snap["renamed"].old, n \in snap["renamed"].new :
         /\ sigGroupKey(oldByKey[o]) = sigGroupKey(newByKey[n])
         /\ ~collision({o2 \in snap["renamed"].old :
                           sigGroupKey(oldByKey[o2]) = sigGroupKey(oldByKey[o])},
                       {n2 \in snap["renamed"].new :
                           sigGroupKey(newByKey[n2]) = sigGroupKey(newByKey[n])})
         /\ oldByKey[o].Signature = "()"

\* The old / new keys unmatched when Pass 3 starts whose symbol has the
\* (signature, kind, package) gk.
OldGroup(gk) == {o \in snap["renamed"].old : sigGroupKey(oldByKey[o]) = gk}
NewGroup(gk) == {n \in snap["renamed"].new : sigGroupKey(newByKey[n]) = gk}

\* The groups Pass 3 sees on either side.
Pass3Groups ==
    {sigGroupKey(oldByKey[o]) : o \in snap["renamed"].old}
        \cup {sigGroupKey(newByKey[n]) : n \in snap["renamed"].new}

\* C12. Pass 3 collision: for a (signature, kind, package) that more than
\* one unmatched old symbol, or more than one unmatched new symbol, has when
\* Pass 3 starts, Pass 3 emits no Change for, and consumes, no symbol of the
\* group: all of them are still unmatched when Pass 4 starts.
C12_Pass3Collision ==
    Done =>
      \A gk \in Pass3Groups :
        (Cardinality(OldGroup(gk)) > 1 \/ Cardinality(NewGroup(gk)) > 1) =>
          /\ \A i \in DOMAIN marks :
               marks[i].pass = "renamed" =>
                 marks[i].oldKey \notin OldGroup(gk) /\ marks[i].newKey \notin NewGroup(gk)
          /\ OldGroup(gk) \subseteq snap["correlateMethods"].old
          /\ NewGroup(gk) \subseteq snap["correlateMethods"].new

\* A call in which Pass 3 met one old symbol facing two new symbols of its
\* group, and a later pass matched the old symbol.
C12_Witness ==
    /\ Done
    /\ \E gk \in Pass3Groups :
         /\ Cardinality(OldGroup(gk)) = 1
         /\ Cardinality(NewGroup(gk)) = 2
         /\ \E i \in DOMAIN marks :
              marks[i].pass = "fuzzyMatch" /\ marks[i].oldKey \in OldGroup(gk)

\* Pass 3 renamed the type or interface tOld to the symbol tNew.
TypeRenamed(tOld, tNew) ==
    /\ tOld.kind \in {SymbolType, SymbolInterface}
    /\ \E i \in DOMAIN marks :
         marks[i].pass = "renamed" /\ marks[i].oldKey = tOld /\ marks[i].newKey = tNew

\* The new key of the member of tNew that has the member name of m.
MemberTarget(m, tNew) ==
    [pkg |-> m.pkg, kind |-> m.kind,
     name |-> tNew.name \o SubSeq(m.name, indexDot(m.name, 1), Len(m.name))]

\* m is an old method or field of the type tOld, unmatched when Pass 4
\* starts, and the member of that name of tNew is an unmatched new symbol.
MemberToCorrelate(m, tOld, tNew) ==
    /\ m \in snap["correlateMethods"].old
    /\ m.kind \in {SymbolMethod, SymbolField}
    /\ m.pkg = tOld.pkg
    /\ indexDot(m.name, 1) > 0
    /\ SubSeq(m.name, 1, indexDot(m.name, 1) - 1) = tOld.name
    /\ MemberTarget(m, tNew) \in snap["correlateMethods"].new

\* C13. Pass 4 correlation: when Pass 3 renamed the type or interface T of
\* package p to T2, every old method or field T.m of p that is unmatched
\* when Pass 4 starts, with (p, same kind, T2.m) an unmatched new symbol,
\* gets exactly one Change, of confidence high: renamed to T2.m when the two
\* signatures are equal, signature_changed otherwise; never removed.
C13_Pass4Correlation ==
    Done =>
      \A tOld \in DOMAIN oldByKey, tNew \in DOMAIN newByKey, m \in DOMAIN oldByKey :
        (TypeRenamed(tOld, tNew) /\ MemberToCorrelate(m, tOld, tNew)) =>
          /\ Cardinality(ChangesFor(m)) = 1
          /\ \A i \in ChangesFor(m) :
               /\ changes[i].Confidence = ConfidenceHigh
               /\ changes[i].Kind # ChangeKindRemoved
               /\ IF oldByKey[m].Signature = newByKey[MemberTarget(m, tNew)].Signature
                  THEN /\ changes[i].Kind = ChangeKindRenamed
                       /\ changes[i].NewName = MemberTarget(m, tNew).name
                  ELSE changes[i].Kind = ChangeKindSignatureChanged

\* The positions of the renamed / medium Changes.
MediumRenames ==
    {i \in DOMAIN changes :
        changes[i].Kind = ChangeKindRenamed /\ changes[i].Confidence = ConfidenceMedium}

\* Name similarity and parameter overlap of the old key o and the new key n.
PairNameSim(o, n) == nameSimilarity(oldByKey[o].Name, newByKey[n].Name)
PairOverlap(o, n) == paramOverlap(oldSigs[o], newSigs[n])

\* The two thresholds hold for o and n: 0.7 on the names, 0.85 when both
\* names are shorter than 4, and 0.8 on the overlap.
WithinThresholds(o, n) ==
    /\ IF Len(oldByKey[o].Name) < 4 /\ Len(newByKey[n].Name) < 4
       THEN RatGE(PairNameSim(o, n), [n |-> 85, d |-> 100])
       ELSE RatGE(PairNameSim(o, n), [n |-> 7, d |-> 10])
    /\ RatGE(PairOverlap(o, n), [n |-> 8, d |-> 10])

\* C14. Pass 5 acceptance: every renamed / medium Change pairs an old and a
\* new symbol that both have a signature entry and meet the two thresholds;
\* a symbol without a signature entry is never matched by Pass 5, and an
\* old one that is unmatched when Pass 5 starts ends as removed / low.
C14_Acceptance ==
    /\ \A i \in MediumRenames :
         /\ marks[i].pass = "fuzzyMatch"
         /\ marks[i].oldKey \in DOMAIN oldSigs
         /\ marks[i].newKey \in DOMAIN newSigs
         /\ WithinThresholds(marks[i].oldKey, marks[i].newKey)
    /\ \A i \in DOMAIN marks :
         marks[i].pass = "fuzzyMatch" =>
           /\ i \in MediumRenames
           /\ marks[i].oldKey \in DOMAIN oldSigs
           /\ marks[i].newKey \in DOMAIN newSigs
    /\ Done =>
         \A o \in snap["fuzzyMatch"].old \ DOMAIN oldSigs :
           /\ Cardinality(ChangesFor(o)) = 1
           /\ \A i \in ChangesFor(o) :
                /\ changes[i].Kind = ChangeKindRemoved
                /\ changes[i].Confidence = ConfidenceLow

\* A call in which Pass 5 matched a pair whose overlap is exactly 4/5 and
\* left an old function that has no signature entry to Pass 6.
C14_Witness ==
    /\ Done
    /\ \E i \in MediumRenames :
         RatEQ(PairOverlap(marks[i].oldKey, marks[i].newKey), [n |-> 4, d |-> 5])
    /\ \E o \in snap["fuzzyMatch"].old \ DOMAIN oldSigs : oldByKey[o].Kind = SymbolFunc

\* The old key o and the new key n have different names, both shorter than
\* 4 characters.
ShortDifferent(o, n) ==
    /\ oldByKey[o].Name # newByKey[n].Name
    /\ Len(oldByKey[o].Name) < 4
    /\ Len(newByKey[n].Name) < 4

\* C15. Short-name guard: Pass 5 pairs no old and new symbol whose names are
\* different and both shorter than 4 characters; the name similarity of
\* every such pair is at most 2/3.
C15_ShortNameGuard ==
    /\ \A i \in DOMAIN marks :
         marks[i].pass = "fuzzyMatch" => ~ShortDifferent(marks[i].oldKey, marks[i].newKey)
    /\ \A o \in DOMAIN oldByKey, n \in DOMAIN newByKey :
         ShortDifferent(o, n) => ~RatGT(PairNameSim(o, n), [n |-> 2, d |-> 3])

\* A call in which Pass 5 saw two functions with names of three characters
\* that differ in one, both with a signature entry and with overlap 1, and
\* the old one ended as removed.
C15_Witness ==
    /\ Done
    /\ \E o \in snap["fuzzyMatch"].old \cap DOMAIN oldSigs,
          n \in snap["fuzzyMatch"].new \cap DOMAIN newSigs :
         /\ ShortDifferent(o, n)
         /\ Len(oldByKey[o].Name) = 3
         /\ RatEQ(PairNameSim(o, n), [n |-> 2, d |-> 3])
         /\ RatEQ(PairOverlap(o, n), [n |-> 1, d |-> 1])
         /\ \E i \in ChangesFor(o) : changes[i].Kind = ChangeKindRemoved

\* The pairs Pass 5 accepts as candidates: an old and a new key, unmatched
\* when Pass 5 starts, with signature entries, that meet the thresholds.
AcceptedPairs ==
    {pr \in (snap["fuzzyMatch"].old \cap DOMAIN oldSigs)
              \X (snap["fuzzyMatch"].new \cap DOMAIN newSigs) :
        WithinThresholds(pr[1], pr[2])}

\* The composite score of a pair.
PairScore(pr) == RatMul(PairNameSim(pr[1], pr[2]), PairOverlap(pr[1], pr[2]))

\* Descending score, then ascending old name, does not put y before x.
SortsNoLater(x, y) ==
    \/ RatGT(PairScore(x), PairScore(y))
    \/ /\ RatEQ(PairScore(x), PairScore(y))
       /\ ~StrLess(oldByKey[y[1]].Name, oldByKey[x[1]].Name)

\* The positions of the Changes of Pass 5, and the pair of the Change at i.
FuzzyMarks == {i \in DOMAIN marks : marks[i].pass = "fuzzyMatch"}
MarkPair(i) == <<marks[i].oldKey, marks[i].newKey>>

\* C16. Pass 5 greedy order: the Changes of Pass 5 are accepted candidates,
\* emitted in descending score order with equal scores in ascending order
\* of the old name; an accepted candidate that was not emitted lost its
\* old or its new symbol to an emitted candidate that sorts no later.
C16_GreedyOrder ==
    Done =>
      /\ \A i \in FuzzyMarks : MarkPair(i) \in AcceptedPairs
      /\ \A i, j \in FuzzyMarks : i < j => SortsNoLater(MarkPair(i), MarkPair(j))
      /\ \A pr \in AcceptedPairs :
           (\A i \in FuzzyMarks : MarkPair(i) # pr) =>
             \E k \in FuzzyMarks :
               /\ marks[k].oldKey = pr[1] \/ marks[k].newKey = pr[2]
               /\ SortsNoLater(MarkPair(k), pr)

\* A call in which two old functions of different names were candidates of
\* equal score for one new function, and one of them was emitted.
C16_Witness ==
    /\ Done
    /\ \E x, y \in AcceptedPairs :
         /\ x[1] # y[1]
         /\ x[2] = y[2]
         /\ oldByKey[x[1]].Name # oldByKey[y[1]].Name
         /\ RatEQ(PairScore(x), PairScore(y))
         /\ \E i \in FuzzyMarks : MarkPair(i) = x

\* The number of the pass a history label belongs to.
PassNo(pass) ==
    CASE pass \in {"changedA", "changedB"} -> 2
      [] pass = "renamed" -> 3
      [] pass = "correlateMethods" -> 4
      [] pass = "fuzzyMatch" -> 5
      [] pass = "leftovers" -> 6

\* high, medium, low as 1, 2, 3.
ConfidenceRank(conf) ==
    CASE conf = ConfidenceHigh -> 1
      [] conf = ConfidenceMedium -> 2
      [] conf = ConfidenceLow -> 3
      [] OTHER -> 0

\* C17. Emission order follows pass order: in the returned list a Change of
\* an earlier pass precedes every Change of a later pass, so every high
\* Change precedes every medium one, and every medium one every low one.
C17_PassOrder ==
    \A i, j \in DOMAIN changes :
        i < j =>
          /\ PassNo(marks[i].pass) <= PassNo(marks[j].pass)
          /\ ConfidenceRank(changes[i].Confidence) <= ConfidenceRank(changes[j].Confidence)

\* A call that returned a Change of Pass 3 followed by a Change of Pass 5.
C17_Witness ==
    /\ Done
    /\ \E i, j \in DOMAIN changes :
         /\ i < j
         /\ marks[i].pass = "renamed"
         /\ marks[j].pass = "fuzzyMatch"

\* The (kind, confidence) pairs of the Changes DiffExports emits.
KindConfidencePairs ==
    { <<ChangeKindSignatureChanged, ConfidenceHigh>>,
      <<ChangeKindTypeChanged, ConfidenceHigh>>,
      <<ChangeKindRenamed, ConfidenceHigh>>,
      <<ChangeKindRenamed, ConfidenceMedium>>,
      <<ChangeKindRemoved, ConfidenceLow>> }

\* C18. Every Change has a non-empty confidence and one of the five
\* (kind, confidence) pairs; none has the kind package_moved.
C18_KindConfidence ==
    \A i \in DOMAIN changes :
        /\ changes[i].Confidence # ""
        /\ <<changes[i].Kind, changes[i].Confidence>> \in KindConfidencePairs
        /\ changes[i].Kind # ChangeKindPackageMoved

\* A call that returned a renamed / medium and a removed / low Change.
C18_Witness ==
    /\ Done
    /\ \E i, j \in DOMAIN changes :
         /\ <<changes[i].Kind, changes[i].Confidence>> = <<ChangeKindRenamed, ConfidenceMedium>>
         /\ <<changes[j].Kind, changes[j].Confidence>> = <<ChangeKindRemoved, ConfidenceLow>>

RECURSIVE EditDistance(_, _)
\* The Levenshtein distance by its defining recurrence.
EditDistance(a, b) ==
    IF a = <<>> THEN Len(b)
    ELSE IF b = <<>> THEN Len(a)
    ELSE Min2(Min2(EditDistance(Tail(a), b) + 1, EditDistance(a, Tail(b)) + 1),
              EditDistance(Tail(a), Tail(b)) + (IF Head(a) = Head(b) THEN 0 ELSE 1))

\* nameSimilarity on a and b is 1 - d / max(len) for the true distance d, is
\* 1 when both are empty, and lies between 0 and 1.
SimilarityAsDefined(a, b) ==
    /\ levenshteinDistance(a, b) = EditDistance(a, b)
    /\ IF a = <<>> /\ b = <<>>
       THEN RatEQ(nameSimilarity(a, b), [n |-> 1, d |-> 1])
       ELSE RatEQ(nameSimilarity(a, b),
                  [n |-> Max2(Len(a), Len(b)) - EditDistance(a, b),
                   d |-> Max2(Len(a), Len(b))])
    /\ nameSimilarity(a, b).d > 0
    /\ RatGE(nameSimilarity(a, b), [n |-> 0, d |-> 1])
    /\ RatGE([n |-> 1, d |-> 1], nameSimilarity(a, b))

\* C19. nameSimilarity(a, b) = 1 - d(a, b) / max(len(a), len(b)) with d the
\* Levenshtein distance, and 1 when both names are empty; it lies in [0, 1]
\* and nameSimilarity(x, x) = 1: for the names of the old and the new list,
\* in both argument orders.
C19_NameSimilarity ==
    \A i \in DOMAIN old, j \in DOMAIN new :
        /\ SimilarityAsDefined(old[i].Name, new[j].Name)
        /\ SimilarityAsDefined(new[j].Name, old[i].Name)
        /\ RatEQ(nameSimilarity(old[i].Name, old[i].Name), [n |-> 1, d |-> 1])
        /\ RatEQ(nameSimilarity(new[j].Name, new[j].Name), [n |-> 1, d |-> 1])

\* A call in which Pass 5 compared two names of different lengths that are
\* two edits apart, neither of them empty.
C19_Witness ==
    /\ Done
    /\ \E o \in snap["fuzzyMatch"].old \cap DOMAIN oldSigs,
          n \in snap["fuzzyMatch"].new \cap DOMAIN newSigs :
         /\ Len(o.name) > 0
         /\ Len(n.name) > Len(o.name)
         /\ EditDistance(o.name, n.name) = 2

\* The params and results of a signature in one list, and the number of
\* times the type ty occurs in a list.
AllTypes(sig) == sig.params \o sig.results
Occurrences(types, ty) == Cardinality({i \in DOMAIN types : types[i] = ty})

\* The type strings that occur in a or in b.
TypesOf(a, b) ==
    {AllTypes(a)[i] : i \in DOMAIN AllTypes(a)} \cup {AllTypes(b)[i] : i \in DOMAIN AllTypes(b)}

\* Sum of min / sum of max of the occurrence counts over the types of a and b.
JaccardMin(a, b) ==
    SumOver(TypesOf(a, b),
            [ty \in TypesOf(a, b) |->
                Min2(Occurrences(AllTypes(a), ty), Occurrences(AllTypes(b), ty))])
JaccardMax(a, b) ==
    SumOver(TypesOf(a, b),
            [ty \in TypesOf(a, b) |->
                Max2(Occurrences(AllTypes(a), ty), Occurrences(AllTypes(b), ty))])

SameMultiset(a, b) ==
    \A ty \in TypesOf(a, b) : Occurrences(AllTypes(a), ty) = Occurrences(AllTypes(b), ty)

\* paramOverlap(a, b) is the multiset Jaccard of a and b, the same in both
\* argument orders, in [0, 1], 1 for two empty or two equal multisets, and
\* 0 when exactly one is empty.
OverlapAsDefined(a, b) ==
    /\ paramOverlap(a, b).d > 0
    /\ RatEQ(paramOverlap(a, b), paramOverlap(b, a))
    /\ RatGE(paramOverlap(a, b), [n |-> 0, d |-> 1])
    /\ RatGE([n |-> 1, d |-> 1], paramOverlap(a, b))
    /\ JaccardMax(a, b) > 0 =>
         RatEQ(paramOverlap(a, b), [n |-> JaccardMin(a, b), d |-> JaccardMax(a, b)])
    /\ (AllTypes(a) = <<>> /\ AllTypes(b) = <<>>) =>
         RatEQ(paramOverlap(a, b), [n |-> 1, d |-> 1])
    /\ SameMultiset(a, b) => RatEQ(paramOverlap(a, b), [n |-> 1, d |-> 1])
    /\ ((AllTypes(a) = <<>>) # (AllTypes(b) = <<>>)) =>
         RatEQ(paramOverlap(a, b), [n |-> 0, d |-> 1])

\* C20. paramOverlap is the multiset Jaccard of params + results: symmetric,
\* in [0, 1], 1 when both multisets are empty or equal, 0 when exactly one
\* is empty: for the signatures of the old and the new list.
C20_ParamOverlap ==
    \A o \in DOMAIN oldSigs, n \in DOMAIN newSigs :
        OverlapAsDefined(oldSigs[o], newSigs[n]) /\ OverlapAsDefined(newSigs[n], oldSigs[o])

\* A call in which Pass 5 compared two signatures whose multisets of types
\* are of different sizes and overlap by 2/3.
C20_Witness ==
    /\ Done
    /\ \E o \in snap["fuzzyMatch"].old \cap DOMAIN oldSigs,
          n \in snap["fuzzyMatch"].new \cap DOMAIN newSigs :
         /\ Len(AllTypes(oldSigs[o])) # Len(AllTypes(newSigs[n]))
         /\ RatEQ(PairOverlap(o, n), [n |-> 2, d |-> 3])

----------------------------------------------------------------------------
(* The extractor (parse.go, signature.go): ParseExports and FindSourceRoot. *)
(*                                                                         *)
(* A name of a file or of a directory, an identifier and a path string are *)
(* sequences of one-character strings.  A path of the tree is the sequence *)
(* of the names that lead from rootDir to the entry; rootDir is <<>>.      *)

\* Largest number of directories below rootDir in the trees of SourceRootTrees.
MaxDirs == 4

\* Largest number of source files in the trees of ExportTrees.
MaxFiles == 2

\* Largest number of fields of the struct declarations of StructTrees.
MaxFields == 2

\* strings.HasPrefix, strings.HasSuffix, and strings.Count for one character.
HasPrefix(s, prefix) == Len(s) >= Len(prefix) /\ SubSeq(s, 1, Len(prefix)) = prefix

HasSuffix(s, suffix) ==
    Len(s) >= Len(suffix) /\ SubSeq(s, Len(s) - Len(suffix) + 1, Len(s)) = suffix

Count(s, c) == Cardinality({i \in 1 .. Len(s) : s[i] = c})

RECURSIVE StrOf(_)
\* The string written with the characters of s.
StrOf(s) == IF s = <<>> THEN "" ELSE Head(s) \o StrOf(Tail(s))

RECURSIVE JoinWith(_, _)
\* strings.Join(parts, sep) on strings.
JoinWith(parts, sep) ==
    IF parts = <<>> THEN ""
    ELSE IF Len(parts) = 1 THEN parts[1]
    ELSE parts[1] \o sep \o JoinWith(Tail(parts), sep)

RECURSIVE JoinPath(_)
\* filepath.Join of path elements, with "/" as the separator.
JoinPath(elems) ==
    IF elems = <<>> THEN <<>>
    ELSE IF Len(elems) = 1 THEN elems[1]
    ELSE elems[1] \o <<"/">> \o JoinPath(Tail(elems))

\* token.IsExported / ast.IsExported: the name starts with an upper-case letter.
IsExported(name) == name # <<>> /\ CharCode(Head(name)) \in 65 .. 90

nGoMod == <<"g", "o", ".", "m", "o", "d">>
nInternal == <<"i", "n", "t", "e", "r", "n", "a", "l">>
nTestdata == <<"t", "e", "s", "t", "d", "a", "t", "a">>
nVendor == <<"v", "e", "n", "d", "o", "r">>
nUnderA == <<"_", "a">>
nDirA == <<"a">>
nDirB == <<"b">>
nXGo == <<"x", ".", "g", "o">>
nYGo == <<"y", ".", "g", "o">>
nXTestGo == <<"x", "_", "t", "e", "s", "t", ".", "g", "o">>
nMain == <<"m", "a", "i", "n">>

\* The path string of rootDir, and the path string of a path of the tree.
RootDir == <<"/", "r">>
PathString(path) == JoinPath(<<RootDir>> \o path)

\* d.Name(): the last element of the path; of rootDir itself, "r".
BaseName(path) == IF path = <<>> THEN <<"r">> ELSE path[Len(path)]

\* filepath.ToSlash(filepath.Rel(base, path)) for a path at or below base.
Rel(base, path) ==
    IF path = base THEN <<".">> ELSE JoinPath(SubSeq(path, Len(base) + 1, Len(path)))

\* path lies strictly below dir.
IsUnder(path, dir) == Len(path) > Len(dir) /\ SubSeq(path, 1, Len(dir)) = dir

\* A tree is [dirs, files]: the paths of the directories below rootDir, and
\* the other entries (regular files, symbolic links) by path.
IsDir(t, path) == path = <<>> \/ path \in t.dirs

ChildNames(t, dir) ==
    {p[Len(p)] : p \in {q \in t.dirs \cup DOMAIN t.files :
                            Len(q) = Len(dir) + 1 /\ IsUnder(q, dir)}}

\* os.ReadDir returns the entries sorted by file name.
SortedNames(S) ==
    CHOOSE s \in Perms(S) : \A i, j \in 1 .. Len(s) : i < j => StrLess(s[i], s[j])

RECURSIVE WalkOrder(_, _)
RECURSIVE WalkEach(_, _, _)
\* The paths filepath.WalkDir(path) visits, in order, when the callback
\* never skips: path, then the walk of each entry of path in name order.
WalkOrder(t, path) ==
    <<path>> \o (IF IsDir(t, path)
                 THEN WalkEach(t, path, SortedNames(ChildNames(t, path)))
                 ELSE <<>>)

WalkEach(t, dir, names) ==
    IF names = <<>> THEN <<>>
    ELSE WalkOrder(t, Append(dir, Head(names))) \o WalkEach(t, dir, Tail(names))

\* What is left to visit after the callback returned res for Head(queue):
\* fs.SkipDir on a directory leaves out everything below it, filepath.SkipAll
\* and an error end the walk.
WalkRest(queue, res) ==
    IF res = "SkipDir"
    THEN SelectSeq(Tail(queue), LAMBDA p : ~IsUnder(p, Head(queue)))
    ELSE IF res = "nil" THEN Tail(queue)
    ELSE <<>>

\* hasGoMod: dir/go.mod exists and is not a directory.
hasGoMod(t, dir) == Append(dir, nGoMod) \in DOMAIN t.files

----------------------------------------------------------------------------
(* go/ast nodes, as far as the extractor reads them *)

NilExpr == [node |-> "nil"]
Ident(name) == [node |-> "Ident", Name |-> name]
StarExpr(x) == [node |-> "StarExpr", X |-> x]
SelectorExpr(x, sel) == [node |-> "SelectorExpr", X |-> x, Sel |-> sel]
IndexExpr(x, index) == [node |-> "IndexExpr", X |-> x, Index |-> index]
StructType(fields) == [node |-> "StructType", Fields |-> fields]
InterfaceType(methods) == [node |-> "InterfaceType", Methods |-> methods]
FuncType(params, results) == [node |-> "FuncType", Params |-> params, Results |-> results]

\* An ast.Field, and a field list (nil, or its List).
Field(names, type) == [Names |-> names, Type |-> type]
NilFieldList == [nil |-> TRUE]
FieldList(list) == [nil |-> FALSE, List |-> list]

FuncDecl(recv, name, type) == [node |-> "FuncDecl", Recv |-> recv, Name |-> name, Type |-> type]
GenDecl(tok, specs) == [node |-> "GenDecl", Tok |-> tok, Specs |-> specs]
TypeSpec(name, assign, type) == [Name |-> name, Assign |-> assign, Type |-> type]
ValueSpec(names, type) == [Names |-> names, Type |-> type]

\* An entry of the tree that is not a directory: a regular file with what
\* parser.ParseFile makes of it (an error, or the package name and the
\* declarations), or a symbolic link.
File(parseErr, pkgName, decls) ==
    [mode |-> "regular", parseErr |-> parseErr, pkgName |-> pkgName, decls |-> decls]
Symlink == [mode |-> "symlink", parseErr |-> TRUE, pkgName |-> <<>>, decls |-> <<>>]

RECURSIVE renderTypeExpr(_)
\* renderTypeExpr, on the kinds of expression the inputs are built from.
renderTypeExpr(expr) ==
    CASE expr.node = "nil" -> ""
      [] expr.node = "Ident" -> StrOf(expr.Name)
      [] expr.node = "SelectorExpr" -> renderTypeExpr(expr.X) \o "." \o StrOf(expr.Sel)
      [] expr.node = "StarExpr" -> "*" \o renderTypeExpr(expr.X)
      [] expr.node = "InterfaceType" ->
            IF expr.Methods = <<>> THEN "interface{}" ELSE "interface{...}"
      [] expr.node = "StructType" -> "struct{...}"
      [] expr.node = "IndexExpr" ->
            renderTypeExpr(expr.X) \o "[" \o renderTypeExpr(expr.Index) \o "]"
      [] OTHER -> "unknown"

RECURSIVE fieldTypes(_)
\* The loop of extractFuncSignature over a field list: one type string per
\* name, one for a field without names.
fieldTypes(list) ==
    IF list = <<>> THEN <<>>
    ELSE LET typeStr == renderTypeExpr(Head(list).Type)
             n == IF Head(list).Names = <<>> THEN 1 ELSE Len(Head(list).Names)
         IN [i \in 1 .. n |-> typeStr] \o fieldTypes(Tail(list))

extractFuncSignature(funcType) ==
    FS(fieldTypes(funcType.Params), fieldTypes(funcType.Results))

RECURSIVE exportedNames(_, _)
\* The inner loop of renderStructSignature: "Name Type" for every exported
\* name of a field.
exportedNames(names, typeStr) ==
    IF names = <<>> THEN <<>>
    ELSE (IF IsExported(Head(names)) THEN <<StrOf(Head(names)) \o " " \o typeStr>> ELSE <<>>)
         \o exportedNames(Tail(names), typeStr)

RECURSIVE structFields(_)
\* The loop of renderStructSignature over the fields of the struct.
structFields(list) ==
    IF list = <<>> THEN <<>>
    ELSE LET typeStr == renderTypeExpr(Head(list).Type)
         IN (IF Head(list).Names = <<>> THEN <<typeStr>>
             ELSE exportedNames(Head(list).Names, typeStr))
            \o structFields(Tail(list))

renderStructSignature(structType) ==
    IF structType.Fields = <<>> THEN "struct{}"
    ELSE LET fields == structFields(structType.Fields)
         IN IF fields = <<>> THEN "struct{}"
            ELSE "struct{" \o JoinWith(fields, "; ") \o "}"

\* renderInterfaceSignature, on interfaces without methods.
renderInterfaceSignature(interfaceType) == "interface{}"

extractTypeSignature(typeSpec) ==
    IF typeSpec.Assign THEN "= " \o renderTypeExpr(typeSpec.Type)
    ELSE CASE typeSpec.Type.node = "StructType" -> renderStructSignature(typeSpec.Type)
           [] typeSpec.Type.node = "InterfaceType" -> renderInterfaceSignature(typeSpec.Type)
           [] OTHER -> renderTypeExpr(typeSpec.Type)

extractConstVarType(spec) == IF spec.Type = NilExpr THEN "" ELSE renderTypeExpr(spec.Type)

\* baseTypeName: the name under a pointer, type arguments and a package
\* selector; "" for any other expression.
baseTypeName(expr) ==
    LET e1 == IF expr.node = "StarExpr" THEN expr.X ELSE expr
        e2 == IF e1.node = "IndexExpr" THEN e1.X ELSE e1
    IN IF expr = NilExpr THEN <<>>
       ELSE IF e2.node = "Ident" THEN e2.Name
       ELSE IF e2.node = "SelectorExpr" THEN e2.Sel
       ELSE <<>>

receiverTypeName(recv) ==
    IF recv.nil \/ recv.List = <<>> THEN <<>> ELSE baseTypeName(recv.List[1].Type)

\* The Go import path of the package of the file at filePath.
Module == "m"

computePackagePath(root, filePath) ==
    LET dir == SubSeq(filePath, 1, Len(filePath) - 1)
        relDir == Rel(root, dir)
    IN IF relDir = <<".">> \/ relDir = <<>> THEN Module
       ELSE Module \o "/" \o StrOf(relDir)

----------------------------------------------------------------------------
(* The collectors of ParseExports.  acc is what they append to: entries and *)
(* sigMap, with the history (from, sigFrom) of the file each came from.     *)

addEntry(acc, sym, file) ==
    [acc EXCEPT !.entries = Append(@, sym), !.from = Append(@, file)]

putSig(acc, key, sig, file) ==
    [acc EXCEPT !.sigMap = MapPut(@, key, sig), !.sigFrom = MapPut(@, key, file)]

collectFunc(acc, funcDecl, pkgPath, file) ==
    LET sig == extractFuncSignature(funcDecl.Type)
        recvName == receiverTypeName(funcDecl.Recv)
        method == Sym(pkgPath, SymbolMethod, recvName \o <<".">> \o funcDecl.Name,
                      recvName, renderFuncSignature(sig))
        function == Sym(pkgPath, SymbolFunc, funcDecl.Name, <<>>, renderFuncSignature(sig))
    IN IF ~IsExported(funcDecl.Name) THEN acc
       ELSE IF ~funcDecl.Recv.nil
       THEN IF recvName = <<>> \/ ~IsExported(recvName) THEN acc
            ELSE addEntry(putSig(acc, symbolKey(method), sig, file), method, file)
       ELSE addEntry(putSig(acc, symbolKey(function), sig, file), function, file)

RECURSIVE collectFieldNames(_, _, _, _, _, _)
\* The loop of collectTypes over the names of one field.
collectFieldNames(acc, names, typeName, typeStr, pkgPath, file) ==
    IF names = <<>> THEN acc
    ELSE collectFieldNames(
            IF IsExported(Head(names))
            THEN addEntry(acc, Sym(pkgPath, SymbolField, typeName \o <<".">> \o Head(names),
                                   <<>>, typeStr), file)
            ELSE acc,
            Tail(names), typeName, typeStr, pkgPath, file)

RECURSIVE collectFields(_, _, _, _, _)
\* The loop of collectTypes over the fields of a struct type.
collectFields(acc, list, typeName, pkgPath, file) ==
    IF list = <<>> THEN acc
    ELSE LET field == Head(list)
             embName == baseTypeName(field.Type)
             typeStr == renderTypeExpr(field.Type)
             embedded == IF embName = <<>> \/ ~IsExported(embName) THEN acc
                         ELSE addEntry(acc, Sym(pkgPath, SymbolField,
                                                typeName \o <<".">> \o embName, <<>>, typeStr),
                                       file)
         IN collectFields(
                IF field.Names = <<>> THEN embedded
                ELSE collectFieldNames(acc, field.Names, typeName, typeStr, pkgPath, file),
                Tail(list), typeName, pkgPath, file)

RECURSIVE collectTypeSpecs(_, _, _, _)
\* The loop of collectTypes over the specs of the declaration.
collectTypeSpecs(acc, specs, pkgPath, file) ==
    IF specs = <<>> THEN acc
    ELSE LET typeSpec == Head(specs)
             kind == IF typeSpec.Type.node = "InterfaceType" THEN SymbolInterface
                     ELSE SymbolType
             withType == addEntry(acc, Sym(pkgPath, kind, typeSpec.Name, <<>>,
                                           extractTypeSignature(typeSpec)), file)
         IN collectTypeSpecs(
                IF ~IsExported(typeSpec.Name) THEN acc
                ELSE IF typeSpec.Type.node # "StructType" THEN withType
                ELSE collectFields(withType, typeSpec.Type.Fields, typeSpec.Name, pkgPath, file),
                Tail(specs), pkgPath, file)

collectTypes(acc, genDecl, pkgPath, file) ==
    collectTypeSpecs(acc, genDecl.Specs, pkgPath, file)

RECURSIVE collectValueNames(_, _, _, _, _, _)
\* The loop of collectValues over the names of one spec.
collectValueNames(acc, names, typeStr, pkgPath, kind, file) ==
    IF names = <<>> THEN acc
    ELSE collectValueNames(
            IF IsExported(Head(names))
            THEN addEntry(acc, Sym(pkgPath, kind, Head(names), <<>>, typeStr), file)
            ELSE acc,
            Tail(names), typeStr, pkgPath, kind, file)

RECURSIVE collectValueSpecs(_, _, _, _, _)
collectValueSpecs(acc, specs, pkgPath, kind, file) ==
    IF specs = <<>> THEN acc
    ELSE collectValueSpecs(
            collectValueNames(acc, Head(specs).Names, extractConstVarType(Head(specs)),
                              pkgPath, kind, file),
            Tail(specs), pkgPath, kind, file)

collectValues(acc, genDecl, pkgPath, kind, file) ==
    collectValueSpecs(acc, genDecl.Specs, pkgPath, kind, file)

RECURSIVE collectDecls(_, _, _, _)
\* The loop of the callback of ParseExports over file.Decls.
collectDecls(acc, decls, pkgPath, file) ==
    IF decls = <<>> THEN acc
    ELSE LET d == Head(decls)
         IN collectDecls(
                CASE d.node = "FuncDecl" -> collectFunc(acc, d, pkgPath, file)
                  [] d.node = "GenDecl" /\ d.Tok = "type" -> collectTypes(acc, d, pkgPath, file)
                  [] d.node = "GenDecl" /\ d.Tok = "const" ->
                        collectValues(acc, d, pkgPath, SymbolConst, file)
                  [] d.node = "GenDecl" /\ d.Tok = "var" ->
                        collectValues(acc, d, pkgPath, SymbolVar, file)
                  [] OTHER -> acc,
                Tail(decls), pkgPath, file)

----------------------------------------------------------------------------
(* FindSourceRoot and ParseExports, one action per call of a callback *)

\* skippedDir without the test for a leading underscore.
skippedDirNamedOnly(base) == base = nInternal \/ base = nTestdata \/ base = nVendor

\* The directories ParseExports does not descend into.
skippedDir(base) ==
    base = nInternal \/ base = nTestdata \/ base = nVendor \/ HasPrefix(base, <<"_">>)

\* The files ParseExports does not parse.
notSource(pathStr) ==
    \/ ~HasSuffix(pathStr, <<".", "g", "o">>)
    \/ HasSuffix(pathStr, <<"_", "t", "e", "s", "t", ".", "g", "o">>)

\* The callback of FindSourceRoot, called with a nil err on path; "SkipAll"
\* is returned with found = path.
searchCallback(t, dir, path) ==
    IF ~IsDir(t, path) THEN "nil"
    ELSE IF Count(Rel(dir, path), "/") > 2 THEN "SkipDir"
    ELSE IF hasGoMod(t, path) THEN "SkipAll"
    ELSE "nil"

\* The callback of ParseExports, called with a nil err on path while the
\* context is cancelled or not: what it returns and what it has collected.
parseCallback(t, root, acc, path, cancelled) ==
    LET keep(res) == [res |-> res, acc |-> acc]
    IN IF cancelled THEN keep("canceled")
       ELSE IF ~IsDir(t, path) /\ t.files[path].mode = "symlink" THEN keep("nil")
       ELSE IF IsDir(t, path)
       THEN IF skippedDir(BaseName(path)) THEN keep("SkipDir") ELSE keep("nil")
       ELSE IF notSource(PathString(path)) THEN keep("nil")
       ELSE IF t.files[path].parseErr THEN keep("nil")
       ELSE IF t.files[path].pkgName = nMain THEN keep("nil")
       ELSE [res |-> "nil",
             acc |-> collectDecls(acc, t.files[path].decls,
                                  computePackagePath(root, path), path)]

\* A nil FuncSigMap.
NilMap == [nil |-> TRUE]

\* An error return that hands out what was collected so far.
ReturnErrPartial(e) ==
    [returned |-> TRUE, err |-> e, Module |-> Module, Entries |-> collected,
     sigMap |-> sigMap]

\* The two ways ParseExports returns.
ReturnErr(e) ==
    [returned |-> TRUE, err |-> e, Module |-> "", Entries |-> <<>>, sigMap |-> NilMap]

ReturnOK(acc) ==
    [returned |-> TRUE, err |-> "", Module |-> Module, Entries |-> acc.entries,
     sigMap |-> acc.sigMap]

\* What ParseExports has collected so far.
Acc == [entries |-> collected, sigMap |-> sigMap, from |-> origin.entries,
        sigFrom |-> origin.sigs]

\* The start of FindSourceRoot: rootDir itself, or the walk below it.
findSourceRoot ==
    /\ pc = "FindSourceRoot"
    /\ pc' = IF hasGoMod(tree, <<>>) THEN "walk" ELSE "search"
    /\ sourceRoot' = <<>>
    /\ todo' = WalkOrder(tree, <<>>)
    /\ UNCHANGED <<tree, ctxDone, collected, sigMap, ret, origin>>
    /\ UNCHANGED diffVars

\* One step of the walk of FindSourceRoot: the callback on the next path
\* and, for a directory it enters, os.ReadDir, whose failure the callback
\* is told in a second call.  The step in which the walk ends also runs
\* the rest of FindSourceRoot and, on an error, of ParseExports.
searchStep ==
    /\ pc = "search"
    /\ todo # <<>>
    /\ \E readErr \in BOOLEAN :
        LET path == Head(todo)
            res == searchCallback(tree, <<>>, path)
            failed == readErr /\ res = "nil" /\ IsDir(tree, path)
            rest == WalkRest(todo, res)
            n == IF failed
                 THEN [pc |-> "returned", root |-> sourceRoot, todo |-> <<>>,
                       ret |-> ReturnErr("searching for go.mod")]
                 ELSE IF res = "SkipAll"
                 THEN [pc |-> "walk", root |-> path, todo |-> WalkOrder(tree, path),
                       ret |-> ret]
                 ELSE IF rest = <<>>
                 THEN [pc |-> "returned", root |-> sourceRoot, todo |-> <<>>,
                       ret |-> ReturnErr("no go.mod found")]
                 ELSE [pc |-> "search", root |-> sourceRoot, todo |-> rest, ret |-> ret]
        IN /\ pc' = n.pc
           /\ sourceRoot' = n.root
           /\ todo' = n.todo
           /\ ret' = n.ret
    /\ UNCHANGED <<tree, ctxDone, collected, sigMap, origin>>
    /\ UNCHANGED diffVars

\* One step of the walk of ParseExports, in the same way; the step in
\* which the walk ends also runs the return of ParseExports.
walkStep ==
    /\ pc = "walk"
    /\ todo # <<>>
    /\ \E readErr \in BOOLEAN :
        LET path == Head(todo)
            r == parseCallback(tree, sourceRoot, Acc, path, ctxDone)
            failed == readErr /\ r.res = "nil" /\ IsDir(tree, path)
            rest == WalkRest(todo, r.res)
            n == IF failed
                 THEN [pc |-> "returned", todo |-> <<>>, ret |-> ReturnErr("read error")]
                 ELSE IF r.res = "canceled"
                 THEN [pc |-> "returned", todo |-> <<>>, ret |-> ReturnErr("canceled")]
                 ELSE IF rest = <<>>
                 THEN [pc |-> "returned", todo |-> <<>>, ret |-> ReturnOK(r.acc)]
                 ELSE [pc |-> "walk", todo |-> rest, ret |-> ret]
        IN /\ pc' = n.pc
           /\ todo' = n.todo
           /\ ret' = n.ret
           /\ collected' = r.acc.entries
           /\ sigMap' = r.acc.sigMap
           /\ origin' = [entries |-> r.acc.from, sigs |-> r.acc.sigFrom]
    /\ UNCHANGED <<tree, ctxDone, sourceRoot>>
    /\ UNCHANGED diffVars

\* The caller cancels the context while ParseExports runs.
cancel ==
    /\ pc \in {"FindSourceRoot", "search", "walk"}
    /\ ~ctxDone
    /\ ctxDone' = TRUE
    /\ UNCHANGED <<pc, tree, sourceRoot, todo, collected, sigMap, ret, origin>>
    /\ UNCHANGED diffVars

NextParse ==
    \/ findSourceRoot
    \/ searchStep
    \/ walkStep
    \/ cancel

\* DiffExports is not running.
DiffIdle ==
    /\ old = <<>>
    /\ new = <<>>
    /\ oldSigs = EmptyMap
    /\ newSigs = EmptyMap
    /\ oldByKey = EmptyMap
    /\ newByKey = EmptyMap
    /\ unmatchedOldSet = {}
    /\ unmatchedNewSet = {}
    /\ typeRenames = EmptyMap
    /\ changes = <<>>
    /\ marks = <<>>
    /\ exact = {}
    /\ snap = [l \in SnapLabels |-> Unmatched({}, {})]

\* ParseExports is called on rootDir holding one of Trees.
InitParse(Trees) ==
    \E t \in Trees :
        /\ tree = t
        /\ ctxDone = FALSE
        /\ sourceRoot = <<>>
        /\ todo = <<>>
        /\ collected = <<>>
        /\ sigMap = EmptyMap
        /\ ret = NoReturn
        /\ origin = NoOrigin
        /\ pc = "FindSourceRoot"
        /\ DiffIdle

----------------------------------------------------------------------------
(* The trees ParseExports is run on *)

DirNames == {nDirA, nDirB}

\* A go.mod file: a regular file that is no Go source.
GoMod == File(TRUE, <<>>, <<>>)

RECURSIVE DirSetsOfSize(_)
\* The sets of n directories below rootDir, named by DirNames, that hold
\* the parent of each of their members.
DirSetsOfSize(n) ==
    IF n = 0 THEN {{}}
    ELSE {D \in UNION {{S \cup {Append(p, c)} : p \in S \cup {<<>>}, c \in DirNames} :
                          S \in DirSetsOfSize(n - 1)} :
             Cardinality(D) = n}

\* The tree of the directories dirs with a go.mod in each directory of manifests.
ManifestTree(dirs, manifests) ==
    [dirs |-> dirs, files |-> [p \in {Append(d, nGoMod) : d \in manifests} |-> GoMod]]

\* Every tree of at most MaxDirs directories with go.mod files in any of
\* them and in rootDir.
SourceRootTrees ==
    UNION {{ManifestTree(D, M) : M \in SUBSET (D \cup {<<>>})} :
              D \in UNION {DirSetsOfSize(n) : n \in 0 .. MaxDirs}}

\* ParseExports on the trees of SourceRootTrees.
InitFind == InitParse(SourceRootTrees)

SpecFind == InitFind /\ [][NextParse]_vars

----------------------------------------------------------------------------
(* Source trees: a go.mod and at most MaxFiles of the files of FileUniverse *)

nAGo == <<"a", ".", "g", "o">>
nBGo == <<"b", ".", "g", "o">>
nPkg == <<"p">>
nfooa == <<"f", "o", "o", "a">>
nM == <<"M">>
nb == <<"b">>

\* func name()
FuncNamed(name) == FuncDecl(NilFieldList, name, FuncType(<<>>, <<>>))

\* func (a *A) M()
MethodOnA ==
    FuncDecl(FieldList(<<Field(<<<<"a">>>>, StarExpr(Ident(nA)))>>), nM, FuncType(<<>>, <<>>))

\* type A struct { B int; b int }
StructA ==
    GenDecl("type", <<TypeSpec(nA, FALSE,
        StructType(<<Field(<<nB>>, Ident(<<"i", "n", "t">>)),
                     Field(<<nb>>, Ident(<<"i", "n", "t">>))>>))>>)

\* var C int
VarC == GenDecl("var", <<ValueSpec(<<nC>>, Ident(<<"i", "n", "t">>))>>)

\* A file of the tree: its path and what it holds.
At(path, file) == [path |-> path, file |-> file]

\* Two files of package p in rootDir that both declare Fooa, a file of the
\* package in directory a, and one file for every way of being left out:
\* a test file, a file that does not parse, a file of package main, a
\* symbolic link, and files under internal, testdata, vendor and _a.
FileUniverse ==
    << At(<<nXGo>>, File(FALSE, nPkg, <<FuncNamed(nFooa), StructA, MethodOnA>>)),
       At(<<nYGo>>, File(FALSE, nPkg, <<FuncNamed(nFooa), FuncNamed(nfooa), VarC>>)),
       At(<<nXTestGo>>, File(FALSE, nPkg, <<FuncNamed(nGooa)>>)),
       At(<<nAGo>>, File(TRUE, nPkg, <<FuncNamed(nGooa)>>)),
       At(<<nBGo>>, File(FALSE, nMain, <<FuncNamed(nGooa)>>)),
       At(<<nDirA, nXGo>>, File(FALSE, nPkg, <<FuncNamed(nFooa)>>)),
       At(<<nDirA, nYGo>>, Symlink),
       At(<<nInternal, nXGo>>, File(FALSE, nPkg, <<FuncNamed(nGooa)>>)),
       At(<<nTestdata, nXGo>>, File(FALSE, nPkg, <<FuncNamed(nGooa)>>)),
       At(<<nVendor, nXGo>>, File(FALSE, nPkg, <<FuncNamed(nGooa)>>)),
       At(<<nUnderA, nXGo>>, File(FALSE, nPkg, <<FuncNamed(nGooa)>>)),
       At(<<nDirA, nInternal, nXGo>>, File(FALSE, nPkg, <<FuncNamed(nGooa)>>)) >>

\* The directories where the trees of ExportTrees keep their go.mod.
ManifestDirs == {<<>>, <<nDirA>>, <<nVendor>>}

\* The directories that lead to path.
Ancestors(path) == {SubSeq(path, 1, n) : n \in 1 .. Len(path) - 1}

\* The tree that holds the files I of FileUniverse and a go.mod in dir.
SourceTree(I, dir) ==
    [dirs |-> UNION {Ancestors(FileUniverse[i].path) : i \in I} \cup ({dir} \ {<<>>}),
     files |-> [p \in {FileUniverse[i].path : i \in I} \cup {Append(dir, nGoMod)} |->
                   IF p = Append(dir, nGoMod) THEN GoMod
                   ELSE FileUniverse[CHOOSE i \in I : FileUniverse[i].path = p].file]]

ExportTrees ==
    {SourceTree(I, dir) :
        I \in {J \in SUBSET (1 .. Len(FileUniverse)) : Cardinality(J) <= MaxFiles},
        dir \in ManifestDirs}

\* ParseExports on the trees of ExportTrees.
InitExports == InitParse(ExportTrees)

SpecExports == InitExports /\ [][NextParse]_vars

----------------------------------------------------------------------------
(* Struct declarations: type A struct { ... } with at most MaxFields of the *)
(* fields of FieldUniverse, in any order                                    *)

TypeInt == Ident(<<"i", "n", "t">>)
TypeError == Ident(<<"e", "r", "r", "o", "r">>)

\* B int; b int; C; c; Get, fooa error; *q.Set
FieldUniverse ==
    { Field(<<nB>>, TypeInt),
      Field(<<nb>>, TypeInt),
      Field(<<>>, Ident(nC)),
      Field(<<>>, Ident(<<"c">>)),
      Field(<<nGet, nfooa>>, TypeError),
      Field(<<>>, StarExpr(SelectorExpr(Ident(<<"q">>), nSet))) }

\* The field lists of at most MaxFields different fields of FieldUniverse.
FieldLists ==
    UNION {Perms(F) : F \in {G \in SUBSET FieldUniverse : Cardinality(G) <= MaxFields}}

\* The module in dir: go.mod and x.go, which declares type A struct { fields }.
StructTree(fields, dir) ==
    [dirs |-> {dir} \ {<<>>},
     files |-> [p \in {Append(dir, nGoMod), Append(dir, nXGo)} |->
                   IF p = Append(dir, nGoMod) THEN GoMod
                   ELSE File(FALSE, nPkg,
                             <<GenDecl("type", <<TypeSpec(nA, FALSE, StructType(fields))>>)>>)]]

\* The module lies in rootDir or in its directory a.
StructTrees == {StructTree(fields, dir) : fields \in FieldLists, dir \in {<<>>, <<nDirA>>}}

\* ParseExports on the trees of StructTrees.
InitStruct == InitParse(StructTrees)

SpecStruct == InitStruct /\ [][NextParse]_vars

----------------------------------------------------------------------------
(* Properties of FindSourceRoot and ParseExports *)

\* ParseExports has returned; ret is what it returned.
Returned == pc = "returned"

\* FindSourceRoot has returned sourceRoot.
RootFound == pc = "walk" \/ (Returned /\ ret.err \in {"", "canceled", "read error"})

\* FindSourceRoot has returned the error that no go.mod was found.
RootMissing == Returned /\ ret.err = "no go.mod found"

\* The directories of the tree at most n levels below rootDir that hold a go.mod.
ManifestsWithin(n) == {d \in tree.dirs \cup {<<>>} : Len(d) <= n /\ hasGoMod(tree, d)}

\* C21: FindSourceRoot(dir) returns dir itself when dir holds a go.mod;
\* otherwise the directory it returns holds a go.mod and lies at most two
\* levels below dir, and it returns an error when no directory within two
\* levels of dir holds a go.mod.
C21_SourceRootWithinTwoLevels ==
    /\ RootFound =>
          /\ hasGoMod(tree, <<>>) => sourceRoot = <<>>
          /\ hasGoMod(tree, sourceRoot)
          /\ Len(sourceRoot) <= 2
    /\ RootMissing => ManifestsWithin(2) = {}
    /\ (ManifestsWithin(2) = {} /\ Returned) => ret.err # ""

\* C22: a step of the walk of ParseExports that runs once the context is
\* cancelled ends the call with the cancellation error, an empty symbol
\* list and a nil FuncSigMap, whatever was collected before.
C22_Cancellation ==
    [][(pc = "walk" /\ ctxDone) =>
          /\ pc' = "returned"
          /\ ret'.err = "canceled"
          /\ ret'.Module = ""
          /\ ret'.Entries = <<>>
          /\ ret'.sigMap = NilMap]_vars

\* ParseExports returned the cancellation error after it had collected symbols.
C22_Witness ==
    /\ Returned
    /\ ret.err = "canceled"
    /\ collected # <<>>
    /\ DOMAIN sigMap # {}

\* A directory name that keeps what is below it out of the result.
LeftOutDir(name) ==
    name \in {nInternal, nTestdata, nVendor} \/ (name # <<>> /\ Head(name) = "_")

\* A file of the tree whose declarations must not show in the result.
LeftOut(path) ==
    \/ \E i \in 1 .. Len(path) - 1 : LeftOutDir(path[i])
    \/ HasSuffix(path[Len(path)], <<"_", "t", "e", "s", "t", ".", "g", "o">>)
    \/ tree.files[path].pkgName = nMain
    \/ tree.files[path].parseErr

\* The Go source files below sourceRoot that are not left out.
KeptFiles ==
    {f \in DOMAIN tree.files :
        /\ IsUnder(f, sourceRoot)
        /\ tree.files[f].mode = "regular"
        /\ HasSuffix(f[Len(f)], <<".", "g", "o">>)
        /\ ~LeftOut(f)}

\* The names of the exported functions file f declares.
FuncsOf(f) ==
    {tree.files[f].decls[i].Name : i \in {j \in DOMAIN tree.files[f].decls :
        /\ tree.files[f].decls[j].node = "FuncDecl"
        /\ tree.files[f].decls[j].Recv.nil
        /\ IsExported(tree.files[f].decls[j].Name)}}

\* The walk is about to hand a file that does not parse to the callback.
AtBrokenFile ==
    /\ pc = "walk"
    /\ todo # <<>>
    /\ ~ctxDone
    /\ Head(todo) \in DOMAIN tree.files
    /\ tree.files[Head(todo)].mode = "regular"
    /\ HasSuffix(Head(todo)[Len(Head(todo))], <<".", "g", "o">>)
    /\ tree.files[Head(todo)].parseErr

\* C23: no entry and no FuncSigMap key of the result of ParseExports comes
\* from a file under a directory named internal, testdata or vendor or
\* starting with "_", from a file ending in _test.go, from a file of
\* package main or from a file that does not parse; every exported
\* function of the other source files is in the result; and the step on
\* a file that does not parse does not end the call with an error.
C23_Filtering ==
    /\ [](Returned /\ ret.err = "" =>
            /\ \A i \in DOMAIN ret.Entries : ~LeftOut(origin.entries[i])
            /\ \A k \in DOMAIN ret.sigMap : ~LeftOut(origin.sigs[k])
            /\ \A f \in KeptFiles : \A name \in FuncsOf(f) :
                  /\ \E i \in DOMAIN ret.Entries :
                        /\ origin.entries[i] = f
                        /\ ret.Entries[i].Kind = SymbolFunc
                        /\ ret.Entries[i].Name = name
                  /\ \E k \in DOMAIN ret.sigMap : k.kind = SymbolFunc /\ k.name = name)
    /\ [][AtBrokenFile => (ret'.returned => ret'.err = "")]_vars

\* ParseExports returned symbols of a tree in which the walk met a file
\* that does not parse.
C23_Witness ==
    /\ Returned
    /\ ret.err = ""
    /\ ret.Entries # <<>>
    /\ \E f \in DOMAIN tree.files :
          /\ IsUnder(f, sourceRoot)
          /\ tree.files[f].mode = "regular"
          /\ tree.files[f].parseErr
          /\ f # Append(sourceRoot, nGoMod)
          /\ ~\E i \in 1 .. Len(f) - 1 : LeftOutDir(f[i])

\* C24: no two entries of the list ParseExports returns have the same
\* (package, kind, name).
C24_KeyUniqueness ==
    Returned /\ ret.err = "" =>
        \A i, j \in DOMAIN ret.Entries :
            symbolKey(ret.Entries[i]) = symbolKey(ret.Entries[j]) => i = j

\* The fields of the struct that x.go declares.
DeclaredFields == tree.files[Append(sourceRoot, nXGo)].decls[1].Specs[1].Type.Fields

RECURSIVE ExportedParts(_)
\* For a field list, in declaration order: "Name Type" for each exported
\* name of a named field, and the type string of each embedded field whose
\* type name is exported.
ExportedParts(list) ==
    IF list = <<>> THEN <<>>
    ELSE LET f == Head(list)
             typeStr == renderTypeExpr(f.Type)
             exported == SelectSeq(f.Names, IsExported)
             named == [i \in 1 .. Len(exported) |-> StrOf(exported[i]) \o " " \o typeStr]
         IN (IF f.Names # <<>> THEN named
             ELSE IF IsExported(baseTypeName(f.Type)) THEN <<typeStr>>
             ELSE <<>>)
            \o ExportedParts(Tail(list))

\* The exported parts joined by "; " inside "struct{" and "}".
StructSignatureOf(list) == "struct{" \o JoinWith(ExportedParts(list), "; ") \o "}"

\* C25: the signature of a struct type lists its exported fields only, in
\* declaration order: "Name Type" for a named field, the type string for an
\* embedded field with an exported type name; "struct{}" when there is none.
C25_StructSignature ==
    Returned /\ ret.err = "" =>
        \E i \in DOMAIN ret.Entries :
            /\ ret.Entries[i].Kind = SymbolType
            /\ ret.Entries[i].Name = nA
            /\ ret.Entries[i].Signature = StructSignatureOf(DeclaredFields)

----------------------------------------------------------------------------
(* Properties of DiffExports as a whole *)

\* C26: with distinct keys on both sides, every old symbol is either matched
\* silently by Pass 1, on a new symbol of its key and signature, or the
\* subject of exactly one Change; the list has one Change per old symbol
\* that Pass 1 did not match; and every old symbol still unmatched after
\* Pass 5 is the subject of a removed / low Change.
C26_Completeness ==
    (Done /\ DistinctKeys(old) /\ DistinctKeys(new)) =>
        /\ \A i \in DOMAIN old :
              LET k == symbolKey(old[i])
              IN IF k \in exact
                 THEN /\ ChangesFor(k) = {}
                      /\ k \in DOMAIN newByKey
                      /\ newByKey[k].Signature = old[i].Signature
                 ELSE /\ Cardinality(ChangesFor(k)) = 1
                      /\ \A c \in ChangesFor(k) :
                            /\ changes[c].Symbol = old[i].Name
                            /\ changes[c].Package = old[i].Package
        /\ Len(changes) = Len(old) - Cardinality(exact)
        /\ \A k \in snap["leftovers"].old :
              \E c \in ChangesFor(k) :
                  /\ marks[c].pass = "leftovers"
                  /\ changes[c].Kind = ChangeKindRemoved
                  /\ changes[c].Confidence = ConfidenceLow

\* A call on two old symbols with distinct keys, one matched by Pass 1 and
\* one left to Pass 6, has returned.
C26_Witness ==
    /\ Done
    /\ DistinctKeys(old)
    /\ DistinctKeys(new)
    /\ Len(old) = 2
    /\ Cardinality(exact) = 1
    /\ snap["leftovers"].old # {}

\* The number of times c occurs in the list r.
TimesIn(c, r) == Cardinality({i \in DOMAIN r : r[i] = c})

\* The lists r1 and r2 hold the same Changes the same number of times.
SameChanges(r1, r2) ==
    \A c \in {r1[i] : i \in DOMAIN r1} \cup {r2[i] : i \in DOMAIN r2} :
        TimesIn(c, r1) = TimesIn(c, r2)

\* C27: with distinct keys on both sides, every run of DiffExports on the
\* symbols of this call returns the Changes this run returns, each as many
\* times, whatever the order in which it visits its indices.
C27_OrderIndependence ==
    (Done /\ DistinctKeys(old) /\ DistinctKeys(new)) =>
        \A r \in DiffExportsResults : SameChanges(r, changes)

\* C28: every renamed Change with confidence high comes from Pass 3 or
\* Pass 4 and pairs an old and a new symbol of the same kind and package
\* with equal signatures and different names, which the Change carries.
C28_HighRenameSameSignature ==
    \A i \in DOMAIN changes :
        (changes[i].Kind = ChangeKindRenamed /\ changes[i].Confidence = ConfidenceHigh) =>
            /\ marks[i].pass \in {"renamed", "correlateMethods"}
            /\ LET o == oldByKey[marks[i].oldKey]
                   n == newByKey[marks[i].newKey]
               IN /\ o.Kind = n.Kind
                  /\ o.Package = n.Package
                  /\ o.Signature = n.Signature
                  /\ o.Name # n.Name
                  /\ changes[i].Symbol = o.Name
                  /\ changes[i].NewName = n.Name
                  /\ changes[i].OldSignature = changes[i].NewSignature

\* A call with a high rename from Pass 3 and one from Pass 4 has returned.
C28_Witness ==
    /\ Done
    /\ \E i, j \in DOMAIN changes :
          /\ marks[i].pass = "renamed"
          /\ marks[j].pass = "correlateMethods"
          /\ changes[i].Kind = ChangeKindRenamed
          /\ changes[j].Kind = ChangeKindRenamed
          /\ changes[i].Confidence = ConfidenceHigh
          /\ changes[j].Confidence = ConfidenceHigh

\* C29: every renamed Change, of confidence high or medium, pairs its old
\* symbol with a new symbol of the same package under a name that differs
\* from the old name.
C29_RenameWithinPackage ==
    \A i \in DOMAIN changes :
        changes[i].Kind = ChangeKindRenamed =>
            /\ newByKey[marks[i].newKey].Package = changes[i].Package
            /\ changes[i].NewName # changes[i].Symbol

\* C30: a Change of Pass 4 for the old member T.m of package p has a
\* Pass 3 rename of the type or interface T of package p behind it, and
\* its new symbol is the member m of the type that rename leads to.
C30_Pass4Soundness ==
    \A i \in DOMAIN marks :
        marks[i].pass = "correlateMethods" =>
            \E tOld \in DOMAIN oldByKey, tNew \in DOMAIN newByKey :
                /\ TypeRenamed(tOld, tNew)
                /\ tOld.pkg = marks[i].oldKey.pkg
                /\ tOld.name = SubSeq(marks[i].oldKey.name, 1,
                                      indexDot(marks[i].oldKey.name, 1) - 1)
                /\ marks[i].newKey = MemberTarget(marks[i].oldKey, tNew)

====
